---- MODULE Spec2Model ----
(***************************************************************************)
(* Model of the auto-dubbing backend: the job pipeline of                  *)
(* backend/routers/dubbing.py (job dictionary, request handlers and the    *)
(* three background stage workers) and the audio timeline assembly of      *)
(* backend/services/video.py.                                              *)
(*                                                                         *)
(* Conventions                                                             *)
(*   - Text is a sequence of one-character strings, so that strip(), join  *)
(*     and the subtitle rendering are computed, not assumed.               *)
(*   - Times of transcript segments are integers in milliseconds           *)
(*     (seconds = ms / 1000, exact arithmetic).                            *)
(*   - A Python None is the string "None" for string-valued fields and the *)
(*     record NoTranscript for the transcript.                             *)
(*   - Request handlers are coroutines without an await between their      *)
(*     first read and last write of the job dictionary, so they are atomic *)
(*     with respect to each other (one event loop).  Background workers    *)
(*     are plain functions run in the thread pool: they interleave with    *)
(*     each other and with a handler between any two statements.  The      *)
(*     only handler that touches a job while a worker of that job may be   *)
(*     running is update_transcript, which is therefore modelled statement *)
(*     by statement.                                                       *)
(***************************************************************************)
EXTENDS Integers, Sequences, FiniteSets, TLC

(***************************************************************************)
(* Bounds of the model.                                                    *)
(***************************************************************************)
\* Number of jobs the uploads may create, number of requests the clients send
\* in one run, and the last instant of the clock.
MaxJobs == 2
MaxRequests == 4
MaxClock == 1

(***************************************************************************)
(* Text: strip, join, decimal formatting.                                  *)
(***************************************************************************)
Whitespace == {" ", "\n", "\t"}

RECURSIVE LStrip(_)
LStrip(s) ==
    IF s # <<>> /\ Head(s) \in Whitespace THEN LStrip(Tail(s)) ELSE s

RECURSIVE RStrip(_)
RStrip(s) ==
    IF s # <<>> /\ s[Len(s)] \in Whitespace
    THEN RStrip(SubSeq(s, 1, Len(s) - 1))
    ELSE s

Strip(s) == RStrip(LStrip(s))

RECURSIVE Join(_, _)
Join(sep, parts) ==
    IF parts = <<>> THEN <<>>
    ELSE IF Len(parts) = 1 THEN parts[1]
    ELSE parts[1] \o sep \o Join(sep, Tail(parts))

Digits == <<"0", "1", "2", "3", "4", "5", "6", "7", "8", "9">>

RECURSIVE Str(_)
Str(n) ==
    IF n < 10 THEN <<Digits[n + 1]>>
    ELSE Str(n \div 10) \o <<Digits[(n % 10) + 1]>>

RECURSIVE Zeros(_)
Zeros(k) == IF k <= 0 THEN <<>> ELSE <<"0">> \o Zeros(k - 1)

Pad(n, width) == Zeros(width - Len(Str(n))) \o Str(n)

(***************************************************************************)
(* Subtitle rendering (services/transcription.py).                        *)
(***************************************************************************)
_seconds_to_srt_time(ms) ==
    LET hours   == ms \div 3600000
        minutes == (ms % 3600000) \div 60000
        secs    == (ms % 60000) \div 1000
        millis  == ms % 1000
    IN  Pad(hours, 2) \o <<":">> \o Pad(minutes, 2) \o <<":">>
            \o Pad(secs, 2) \o <<",">> \o Pad(millis, 3)

\* Variant: no empty line is appended after the text of an entry.
RECURSIVE SrtLines_dense(_, _)
SrtLines_dense(segments, i) ==
    IF segments = <<>> THEN <<>>
    ELSE LET seg == Head(segments)
         IN  << Str(i),
                _seconds_to_srt_time(seg.start)
                    \o <<" ", "-", "-", ">", " ">>
                    \o _seconds_to_srt_time(seg.end),
                seg.text >>
             \o SrtLines_dense(Tail(segments), i + 1)

RECURSIVE SrtLines(_, _)
SrtLines(segments, i) ==
    IF segments = <<>> THEN <<>>
    ELSE LET seg == Head(segments)
         IN  << Str(i),
                _seconds_to_srt_time(seg.start)
                    \o <<" ", "-", "-", ">", " ">>
                    \o _seconds_to_srt_time(seg.end),
                seg.text,
                <<>> >>
             \o SrtLines(Tail(segments), i + 1)

\* lines = [] ... return "\n".join(lines): the list is built once, then joined.
segments_to_srt(segments) ==
    CHOOSE srt \in {Join(<<"\n">>, lines) : lines \in {SrtLines(segments, 1)}} : TRUE

(***************************************************************************)
(* Job status values (models/schemas.py) and program constants (config.py).*)
(***************************************************************************)
JobStatus ==
    {"pending", "uploading", "transcribing", "transcribed", "generating_voice",
     "voice_generated", "merging", "completed", "failed"}

MAX_UPLOAD_SIZE == 524288000

ALLOWED_VIDEO_EXTENSIONS == {".mp4", ".mkv", ".avi", ".mov", ".webm"}

NoTranscript == [none |-> TRUE]

\* A time in seconds given in milliseconds, as a rational.
Millis(ms) == [num |-> ms, den |-> 1000]

(***************************************************************************)
(* Inputs: what requests carry and what the collaborators may return.      *)
(***************************************************************************)
JobIdSpace == 1..(MaxJobs + 1)

UploadExts == {".mp4", ".txt"}

UploadSizes == {MAX_UPLOAD_SIZE, MAX_UPLOAD_SIZE + 1}

LanguageHints == {"None", "fr"}

\* Raw output of the speech recogniser: detected language ("" when the
\* recogniser reports none) and timed segments whose text is not yet stripped.
AsrOutputs ==
    { [language |-> "fr",
       segments |-> << [start |-> 0, end |-> 1500, text |-> <<" ", "B", "o">>] >>],
      [language |-> "",
       segments |-> << [start |-> 0, end |-> 1000, text |-> <<"a", " ">>],
                       [start |-> 1000, end |-> 2000, text |-> <<" ">>],
                       [start |-> 2000, end |-> 2500, text |-> <<"b">>],
                       [start |-> 2500, end |-> 3000, text |-> <<"c">>] >>] }

\* Segment lists of transcript-edit requests (TranscriptUpdateRequest): the
\* empty list, and a list with a repeated id, unstripped text and a segment
\* that starts after the end of the video.
EditSegments ==
    { <<>>,
      << [id |-> 7, start |-> 500, end |-> 1000, text |-> <<"d", " ">>],
         [id |-> 7, start |-> 4000, end |-> 5000, text |-> <<"e">>] >> }

\* Durations the media probe may report, in milliseconds.
ProbeDurations == {0, 3000}

\* Lengths (in samples) of the clips the speech synthesiser may produce.
ClipLens == {1, 24000}

(***************************************************************************)
(* State.                                                                  *)
(***************************************************************************)
VARIABLES
    jobs,       \* the job dictionary: job id -> job record
    tasks,      \* background tasks that are enqueued or running
    edit,       \* the update_transcript handler in flight, if any
    response,   \* outcome of the last request handled
    now,        \* the value datetime.utcnow() returns
    requests,   \* number of requests handled so far
    asm,        \* one call of concatenate_audio_with_timing
    snapshot,   \* the file jobs_state.json
    synth       \* one call of TTSService.generate_segments

vars == <<jobs, tasks, edit, response, now, requests, asm, snapshot, synth>>

pipeline == <<jobs, tasks, edit, response, now, requests, snapshot, synth>>

IdleEdit == [pc |-> "idle", job_id |-> 0, segments |-> <<>>]

NoResponse == [op |-> "none", job_id |-> 0, status_code |-> 0]

Respond(op, job_id, code) == [op |-> op, job_id |-> job_id, status_code |-> code]

(***************************************************************************)
(* The job store (routers/dubbing.py).                                     *)
(***************************************************************************)
\* Variant: the fields are written to every record of the store.
update_job_all(J, job_id, kwargs, t) ==
    IF job_id \in DOMAIN J
    THEN [j \in DOMAIN J |->
            [k \in DOMAIN J[j] |->
                IF k = "updated_at" THEN t
                ELSE IF k \in DOMAIN kwargs THEN kwargs[k]
                ELSE J[j][k]]]
    ELSE J

\* Variant: an update of an unknown id creates the record.
update_job_upsert(J, job_id, kwargs, t) ==
    [j \in DOMAIN J \cup {job_id} |->
        IF j \in DOMAIN J /\ j # job_id THEN J[j]
        ELSE [k \in DOMAIN kwargs \cup {"updated_at"} |->
                 IF k = "updated_at" THEN t ELSE kwargs[k]]]

\* Variant: an update does not stamp the time.
update_job_unstamped(J, job_id, kwargs, t) ==
    IF job_id \in DOMAIN J
    THEN [J EXCEPT ![job_id] =
            [k \in DOMAIN @ |-> IF k \in DOMAIN kwargs THEN kwargs[k] ELSE @[k]]]
    ELSE J

\* Variant: an update that is not given the transcript resets it.
update_job_reset(J, job_id, kwargs, t) ==
    IF job_id \in DOMAIN J
    THEN [J EXCEPT ![job_id] =
            [k \in DOMAIN @ |->
                IF k = "updated_at" THEN t
                ELSE IF k \in DOMAIN kwargs THEN kwargs[k]
                ELSE IF k = "transcript" THEN NoTranscript
                ELSE @[k]]]
    ELSE J

update_job(J, job_id, kwargs, t) ==
    IF job_id \in DOMAIN J
    THEN [J EXCEPT ![job_id] =
            [k \in DOMAIN @ |->
                IF k = "updated_at" THEN t
                ELSE IF k \in DOMAIN kwargs THEN kwargs[k]
                ELSE @[k]]]
    ELSE J

\* Variant: the record is created in the status UPLOADING.
NewJob_uploading(job_id, t) ==
    [job_id |-> job_id,
     status |-> "uploading",
     progress |-> 0,
     message |-> "Video uploaded successfully",
     created_at |-> t,
     updated_at |-> t,
     transcript |-> NoTranscript,
     output_url |-> "None",
     error |-> "None",
     audio_path |-> "None",
     voiceover_path |-> "None",
     output_path |-> "None"]

\* The dictionary stored by upload_video; a key that is absent from it reads
\* as None through job.get.
NewJob(job_id, t) ==
    [job_id |-> job_id,
     status |-> "pending",
     progress |-> 0,
     message |-> "Video uploaded successfully",
     created_at |-> t,
     updated_at |-> t,
     transcript |-> NoTranscript,
     output_url |-> "None",
     error |-> "None",
     audio_path |-> "None",
     voiceover_path |-> "None",
     output_path |-> "None"]

HasTranscript(job) == job.transcript # NoTranscript

TasksOf(job_id) == {n \in 1..Len(tasks) : tasks[n].job_id = job_id}

NewTask(fn, job_id, language, segments) ==
    [fn |-> fn, job_id |-> job_id, pc |-> "entry", language |-> language,
     segments |-> segments, i |-> 0, generated |-> <<>>, warnings |-> {},
     result |-> NoTranscript]

RemoveAt(s, n) == SubSeq(s, 1, n - 1) \o SubSeq(s, n + 1, Len(s))

(***************************************************************************)
(* Speech recognition result (TranscriptionService.transcribe).            *)
(***************************************************************************)
RECURSIVE AsrSegments(_, _)
AsrSegments(raw, i) ==
    IF raw = <<>> THEN <<>>
    ELSE << [id |-> i, start |-> Head(raw).start, end |-> Head(raw).end,
             text |-> Strip(Head(raw).text)] >>
         \o AsrSegments(Tail(raw), i + 1)

Texts(segments) == [n \in 1..Len(segments) |-> segments[n].text]

transcribe(out) ==
    LET segments == AsrSegments(out.segments, 0)
    IN  [text |-> Join(<<" ">>, Texts(segments)),
         segments |-> segments,
         language |-> IF out.language # "" THEN out.language ELSE "en"]

NoCall ==
    [pc |-> "none", segments |-> <<>>, total_duration |-> Millis(0),
     sample_rate |-> 0, k |-> 0, output_audio |-> <<>>]

\* No call of generate_segments is under way.
NoSynth == [pc |-> "none", segments |-> <<>>, i |-> 0, results |-> <<>>,
            failed |-> {}]

\* jobs_state.json before save_jobs_state has ever run.
NoSnapshot == [exists |-> FALSE, jobs |-> <<>>]

PipelineInit ==
    /\ jobs = <<>>
    /\ tasks = <<>>
    /\ edit = IdleEdit
    /\ response = NoResponse
    /\ now = 0
    /\ requests = 0
    /\ snapshot = NoSnapshot

Init ==
    /\ PipelineInit
    /\ asm = NoCall
    /\ synth = NoSynth

(***************************************************************************)
(* The clock read by datetime.utcnow().                                    *)
(***************************************************************************)
Tick ==
    /\ now < MaxClock
    /\ now' = now + 1
    /\ UNCHANGED <<jobs, tasks, edit, response, requests>>

(***************************************************************************)
(* Request handlers.                                                       *)
(***************************************************************************)
\* A request is taken from the clients while the budget of the run lasts.
Received ==
    /\ requests < MaxRequests
    /\ requests' = requests + 1

\* Variant: a completed job may be transcribed again.
CanTranscribe_again(status) == status \in {"pending", "transcribed", "completed"}

\* Variant: a job is transcribed once only.
CanTranscribe_once(status) == status = "pending"

\* Variant: a failed job may be transcribed again.
CanTranscribe_retry(status) == status \in {"pending", "transcribed", "failed"}

CanTranscribe(status) == status \in {"pending", "transcribed"}

\* Variant: voice generation may be requested again after a failure.
CanGenerateVoice_failed(status) ==
    status \in {"transcribed", "voice_generated", "failed"}

\* Variant: voice generation may start while a transcription is running.
CanGenerateVoice_early(status) ==
    status \in {"transcribing", "transcribed", "voice_generated"}

\* Variant: the in-progress status does not lock the stage.
CanGenerateVoice_busy(status) ==
    status \in {"transcribed", "generating_voice", "voice_generated"}

CanGenerateVoice(status) == status \in {"transcribed", "voice_generated"}

CanMerge(status) == status = "voice_generated"

upload_video(ext, size) ==
    /\ edit.pc = "idle"
    /\ Received
    /\ Cardinality(DOMAIN jobs) < MaxJobs
    /\ LET job_id == Cardinality(DOMAIN jobs) + 1
       IN  IF ext \notin ALLOWED_VIDEO_EXTENSIONS \/ size > MAX_UPLOAD_SIZE
           THEN /\ response' = Respond("upload_video", 0, 400)
                /\ UNCHANGED jobs
           ELSE /\ jobs' = [k \in DOMAIN jobs \cup {job_id} |->
                              IF k = job_id THEN NewJob(job_id, now) ELSE jobs[k]]
                /\ response' = Respond("upload_video", job_id, 200)
    /\ UNCHANGED <<tasks, edit, now>>

start_transcription(job_id, language) ==
    /\ edit.pc = "idle"
    /\ Received
    /\ IF job_id \notin DOMAIN jobs
       THEN /\ response' = Respond("start_transcription", job_id, 404)
            /\ UNCHANGED <<jobs, tasks>>
       ELSE IF ~CanTranscribe(jobs[job_id].status)
       THEN /\ response' = Respond("start_transcription", job_id, 400)
            /\ UNCHANGED <<jobs, tasks>>
       ELSE /\ jobs' = update_job(jobs, job_id,
                          [status |-> "transcribing", progress |-> 10,
                           message |-> "Starting transcription..."], now)
            /\ tasks' = Append(tasks,
                          NewTask("run_transcription", job_id, language, <<>>))
            /\ response' = Respond("start_transcription", job_id, 200)
    /\ UNCHANGED <<edit, now>>

generate_voice(job_id) ==
    /\ edit.pc = "idle"
    /\ Received
    /\ IF job_id \notin DOMAIN jobs
       THEN /\ response' = Respond("generate_voice", job_id, 404)
            /\ UNCHANGED <<jobs, tasks>>
       ELSE IF \/ ~CanGenerateVoice(jobs[job_id].status)
               \/ ~HasTranscript(jobs[job_id])
       THEN /\ response' = Respond("generate_voice", job_id, 400)
            /\ UNCHANGED <<jobs, tasks>>
       ELSE /\ jobs' = update_job(jobs, job_id,
                          [status |-> "generating_voice", progress |-> 10,
                           message |-> "Starting voice generation..."], now)
            /\ tasks' = Append(tasks,
                          NewTask("run_voice_generation", job_id, "None",
                                  jobs[job_id].transcript.segments))
            /\ response' = Respond("generate_voice", job_id, 200)
    /\ UNCHANGED <<edit, now>>

merge_video(job_id) ==
    /\ edit.pc = "idle"
    /\ Received
    /\ IF job_id \notin DOMAIN jobs
       THEN /\ response' = Respond("merge_video", job_id, 404)
            /\ UNCHANGED <<jobs, tasks>>
       ELSE IF \/ ~CanMerge(jobs[job_id].status)
               \/ jobs[job_id].voiceover_path = "None"
       THEN /\ response' = Respond("merge_video", job_id, 400)
            /\ UNCHANGED <<jobs, tasks>>
       ELSE /\ jobs' = update_job(jobs, job_id,
                          [status |-> "merging", progress |-> 10,
                           message |-> "Starting video merge..."], now)
            /\ tasks' = Append(tasks,
                          NewTask("run_video_merge", job_id, "None", <<>>))
            /\ response' = Respond("merge_video", job_id, 200)
    /\ UNCHANGED <<edit, now>>

(***************************************************************************)
(* The handlers that only read the job record.                             *)
(***************************************************************************)
\* Whether update_job raises for the given store and id: it has no raise
\* statement and returns None on both branches of "if job_id in jobs".
update_job_raises(J, job_id) == FALSE

Reads(op, job_id, code) ==
    /\ response' = Respond(op, job_id, code)
    /\ UNCHANGED <<jobs, tasks, edit, now>>

get_job_status(job_id) ==
    /\ edit.pc = "idle"
    /\ Received
    /\ Reads("get_job_status", job_id,
             IF job_id \notin DOMAIN jobs THEN 404 ELSE 200)

get_transcript(job_id) ==
    /\ edit.pc = "idle"
    /\ Received
    /\ Reads("get_transcript", job_id,
             IF job_id \notin DOMAIN jobs THEN 404
             ELSE IF ~HasTranscript(jobs[job_id]) THEN 400
             ELSE 200)

\* exists is the outcome of Path(output_path).exists()
download_video(job_id, exists) ==
    /\ edit.pc = "idle"
    /\ Received
    /\ Reads("download_video", job_id,
             IF job_id \notin DOMAIN jobs THEN 404
             ELSE IF jobs[job_id].status # "completed" THEN 400
             ELSE IF jobs[job_id].output_path = "None" \/ ~exists THEN 404
             ELSE 200)

\* exists is the outcome of srt_path.exists()
download_srt(job_id, exists) ==
    /\ edit.pc = "idle"
    /\ Received
    /\ Reads("download_srt", job_id,
             IF job_id \notin DOMAIN jobs THEN 404
             ELSE IF ~HasTranscript(jobs[job_id]) THEN 400
             ELSE IF ~exists THEN 404
             ELSE 200)

ReadsNext ==
    \/ \E j \in JobIdSpace : get_job_status(j)
    \/ \E j \in JobIdSpace : get_transcript(j)
    \/ \E j \in JobIdSpace, exists \in BOOLEAN : download_video(j, exists)
    \/ \E j \in JobIdSpace, exists \in BOOLEAN : download_srt(j, exists)

(***************************************************************************)
(* update_transcript writes the live job record in four statements; a      *)
(* background worker of the same job may run between any two of them.      *)
(***************************************************************************)
\* Variant: writing a transcript field also marks the job transcribed.
SetTranscriptField_status(J, job_id, field, value) ==
    [J EXCEPT ![job_id].transcript[field] = value,
              ![job_id].status = "transcribed"]

\* job["transcript"][field] = value
SetTranscriptField(J, job_id, field, value) ==
    [J EXCEPT ![job_id].transcript[field] = value]

\* get_job, the transcript check and job["transcript"]["segments"] = segments
update_transcript_segments(job_id, segments) ==
    /\ edit.pc = "idle"
    /\ Received
    /\ IF job_id \notin DOMAIN jobs
       THEN /\ response' = Respond("update_transcript", job_id, 404)
            /\ UNCHANGED <<jobs, edit>>
       ELSE IF ~HasTranscript(jobs[job_id])
       THEN /\ response' = Respond("update_transcript", job_id, 400)
            /\ UNCHANGED <<jobs, edit>>
       ELSE /\ jobs' = SetTranscriptField(jobs, job_id, "segments", segments)
            /\ edit' = [pc |-> "full_text", job_id |-> job_id,
                        segments |-> segments]
            /\ UNCHANGED response
    /\ UNCHANGED <<tasks, now>>

\* job["transcript"]["full_text"] = " ".join(s["text"] for s in segments)
update_transcript_full_text ==
    /\ edit.pc = "full_text"
    /\ jobs' = SetTranscriptField(jobs, edit.job_id, "full_text",
                                  Join(<<" ">>, Texts(edit.segments)))
    /\ edit' = [edit EXCEPT !.pc = "srt"]
    /\ UNCHANGED <<tasks, response, now, requests>>

\* job["transcript"]["srt"] = transcription_service.segments_to_srt(segments)
update_transcript_srt ==
    /\ edit.pc = "srt"
    /\ jobs' = SetTranscriptField(jobs, edit.job_id, "srt",
                                  segments_to_srt(edit.segments))
    /\ edit' = [edit EXCEPT !.pc = "update_job"]
    /\ UNCHANGED <<tasks, response, now, requests>>

\* update_job(job_id, transcript=job["transcript"]) and the response
update_transcript_update_job ==
    /\ edit.pc = "update_job"
    /\ jobs' = update_job(jobs, edit.job_id,
                          [transcript |-> jobs[edit.job_id].transcript], now)
    /\ response' = Respond("update_transcript", edit.job_id, 200)
    /\ edit' = IdleEdit
    /\ UNCHANGED <<tasks, now, requests>>

(***************************************************************************)
(* Timeline assembly (VideoService.concatenate_audio_with_timing).         *)
(* A time is a rational [num, den] in seconds; an audio buffer is a        *)
(* sequence of samples, Python index p being position p + 1.               *)
(***************************************************************************)
\* int(x) of Python for the rational x = n / d (d > 0): truncation to zero.
IntTrunc(n, d) == IF n >= 0 THEN n \div d ELSE -((-n) \div d)

Min(a, b) == IF a < b THEN a ELSE b

\* Position of a slice bound k in an array of length n (Python slicing).
SliceIndex(k, n) ==
    IF k < 0 THEN (IF k + n < 0 THEN 0 ELSE k + n)
    ELSE IF k > n THEN n ELSE k

\* Variant: the buffer length is rounded to the nearest sample.
TotalSamples_rounded(total_duration, sample_rate) ==
    IntTrunc(2 * total_duration.num * sample_rate + total_duration.den,
             2 * total_duration.den)

\* total_samples = int(total_duration * sample_rate)
TotalSamples(total_duration, sample_rate) ==
    IntTrunc(total_duration.num * sample_rate, total_duration.den)

\* Variant: the start offset is rounded to the nearest sample.
StartSample_rounded(start_time, sample_rate) ==
    IntTrunc(2 * start_time.num * sample_rate + start_time.den,
             2 * start_time.den)

\* start_sample = int(start_time * sample_rate)
StartSample(start_time, sample_rate) ==
    IntTrunc(start_time.num * sample_rate, start_time.den)

\* Variant: the resampled length is rounded to the nearest sample.
NewLength_rounded(len, sr, sample_rate) ==
    IntTrunc(2 * len * sample_rate + sr, 2 * sr)

\* new_length = int(len(segment_audio) * (sample_rate / sr))
NewLength(len, sr, sample_rate) == IntTrunc(len * sample_rate, sr)

\* segment_audio[np.linspace(0, len - 1, new_length).astype(int)]
Resample(segment_audio, sr, sample_rate) ==
    LET len        == Len(segment_audio)
        new_length == NewLength(len, sr, sample_rate)
    IN  [k \in 1..new_length |->
            IF new_length = 1 THEN segment_audio[1]
            ELSE segment_audio[IntTrunc((k - 1) * (len - 1), new_length - 1) + 1]]

\* Variant: end_sample is not limited to the buffer length.
Placement_unclipped(total_samples, start_sample, len) ==
    LET end_sample     == start_sample + len
        segment_length == end_sample - start_sample
        lo             == SliceIndex(start_sample, total_samples)
        hi             == SliceIndex(end_sample, total_samples)
        dst            == IF hi > lo THEN hi - lo ELSE 0
        src            == SliceIndex(segment_length, len)
    IN  [lo |-> lo, dst |-> dst, src |-> src,
         raises |-> (src # dst /\ src # 1)]

\* The slice assignment
\*   output_audio[start_sample:end_sample] = segment_audio[:segment_length]
\* for a buffer of total_samples samples and a clip of len samples: the
\* destination positions lo..hi-1, the number of source samples taken, and
\* whether numpy refuses the assignment (shapes that do not broadcast).
Placement(total_samples, start_sample, len) ==
    LET end_sample     == Min(start_sample + len, total_samples)
        segment_length == end_sample - start_sample
        lo             == SliceIndex(start_sample, total_samples)
        hi             == SliceIndex(end_sample, total_samples)
        dst            == IF hi > lo THEN hi - lo ELSE 0
        src            == SliceIndex(segment_length, len)
    IN  [lo |-> lo, dst |-> dst, src |-> src,
         raises |-> (src # dst /\ src # 1)]

\* Variant: a sample already written by an earlier segment is kept.
PlaceSegment_keep(out, seg, sample_rate) ==
    IF out.raised THEN out
    ELSE IF seg.file = "missing" THEN out
    ELSE IF seg.file = "unreadable" THEN [out EXCEPT !.raised = TRUE]
    ELSE
        LET segment_audio == IF seg.sr # sample_rate
                             THEN Resample(seg.audio, seg.sr, sample_rate)
                             ELSE seg.audio
            p == Placement(Len(out.audio),
                           StartSample(seg.start, sample_rate),
                           Len(segment_audio))
        IN  IF p.raises THEN [out EXCEPT !.raised = TRUE]
            ELSE [out EXCEPT !.audio =
                    [k \in 1..Len(out.audio) |->
                        IF k - 1 >= p.lo /\ k - 1 < p.lo + p.dst /\ out.audio[k] = 0
                        THEN (IF p.src = 1 THEN segment_audio[1]
                              ELSE segment_audio[k - p.lo])
                        ELSE out.audio[k]]]

\* One iteration of the loop over the segments; out is [raised, audio].
PlaceSegment(out, seg, sample_rate) ==
    IF out.raised THEN out
    ELSE IF seg.file = "missing" THEN out
    ELSE IF seg.file = "unreadable" THEN [out EXCEPT !.raised = TRUE]
    ELSE
        LET segment_audio == IF seg.sr # sample_rate
                             THEN Resample(seg.audio, seg.sr, sample_rate)
                             ELSE seg.audio
            p == Placement(Len(out.audio),
                           StartSample(seg.start, sample_rate),
                           Len(segment_audio))
        IN  IF p.raises THEN [out EXCEPT !.raised = TRUE]
            ELSE [out EXCEPT !.audio =
                    [k \in 1..Len(out.audio) |->
                        IF k - 1 >= p.lo /\ k - 1 < p.lo + p.dst
                        THEN (IF p.src = 1 THEN segment_audio[1]
                              ELSE segment_audio[k - p.lo])
                        ELSE out.audio[k]]]

\* Whether the assembly of the voice-generation stage raises: the same
\* placement arithmetic at the default output rate, for clips of the given
\* lengths that the synthesiser has just written at that rate.
DEFAULT_SAMPLE_RATE == 24000

AssemblyRaises(generated, lens, duration_ms) ==
    LET total_samples == TotalSamples(Millis(duration_ms), DEFAULT_SAMPLE_RATE)
    IN  \/ total_samples < 0
        \/ \E n \in 1..Len(generated) :
              Placement(total_samples,
                        StartSample(Millis(generated[n].start), DEFAULT_SAMPLE_RATE),
                        lens[n]).raises

(***************************************************************************)
(* Background workers.  Task n is the n-th entry of tasks; a step that     *)
(* ends the worker removes the entry.  A collaborator call and the         *)
(* update_job that follows it are one step; each collaborator may return   *)
(* or raise.                                                               *)
(***************************************************************************)
IsTask(n, fn, pc) ==
    /\ n \in 1..Len(tasks)
    /\ tasks[n].fn = fn
    /\ tasks[n].pc = pc

\* Variant: the except branch only logs; the worker ends without an update.
Fail_silent(n, error, message) ==
    /\ jobs' = jobs
    /\ tasks' = RemoveAt(tasks, n)

\* Variant: the except branch records the status but not the error.
Fail_no_error(n, error, message) ==
    /\ jobs' = update_job(jobs, tasks[n].job_id,
                          [status |-> "failed", message |-> message], now)
    /\ tasks' = RemoveAt(tasks, n)

\* Variant: the except branch records the error but not the status.
Fail_keep_status(n, error, message) ==
    /\ jobs' = update_job(jobs, tasks[n].job_id,
                          [error |-> error, message |-> message], now)
    /\ tasks' = RemoveAt(tasks, n)

\* The except branch of a worker: update_job(status=FAILED, error=str(e), ...)
Fail(n, error, message) ==
    /\ jobs' = update_job(jobs, tasks[n].job_id,
                          [status |-> "failed", error |-> error,
                           message |-> message], now)
    /\ tasks' = RemoveAt(tasks, n)

Goto(n, pc) == tasks' = [tasks EXCEPT ![n].pc = pc]

\* --- run_transcription ---------------------------------------------------
run_transcription_entry(n) ==
    /\ IsTask(n, "run_transcription", "entry")
    /\ jobs' = update_job(jobs, tasks[n].job_id,
                          [progress |-> 20, message |-> "Extracting audio..."], now)
    /\ Goto(n, "extract_audio")
    /\ UNCHANGED <<edit, response, now, requests>>

run_transcription_extract_audio(n, raises) ==
    /\ IsTask(n, "run_transcription", "extract_audio")
    /\ IF raises
       THEN Fail(n, "extract_audio error", "Transcription failed")
       ELSE /\ jobs' = update_job(jobs, tasks[n].job_id,
                          [progress |-> 40, message |-> "Transcribing audio..."], now)
            /\ Goto(n, "transcribe")
    /\ UNCHANGED <<edit, response, now, requests>>

run_transcription_transcribe(n, raises, out) ==
    /\ IsTask(n, "run_transcription", "transcribe")
    /\ IF raises
       THEN Fail(n, "transcribe error", "Transcription failed")
       ELSE /\ jobs' = update_job(jobs, tasks[n].job_id,
                          [progress |-> 80, message |-> "Generating SRT..."], now)
            /\ tasks' = [tasks EXCEPT ![n].pc = "srt",
                                      ![n].result = transcribe(out)]
    /\ UNCHANGED <<edit, response, now, requests>>

\* The transcript dictionary built from the recogniser's result.
TranscriptOf(result) ==
    [language |-> result.language,
     full_text |-> result.text,
     segments |-> result.segments,
     srt |-> segments_to_srt(result.segments)]

run_transcription_srt(n, raises) ==
    /\ IsTask(n, "run_transcription", "srt")
    /\ IF raises
       THEN Fail(n, "write_text error", "Transcription failed")
       ELSE \E transcript \in {TranscriptOf(tasks[n].result)} :
               /\ jobs' = update_job(jobs, tasks[n].job_id,
                             [status |-> "transcribed", progress |-> 100,
                              message |-> "Transcription complete",
                              transcript |-> transcript,
                              audio_path |-> "audio.wav"], now)
               /\ tasks' = RemoveAt(tasks, n)
    /\ UNCHANGED <<edit, response, now, requests>>

\* --- run_voice_generation ------------------------------------------------
run_voice_generation_entry(n) ==
    /\ IsTask(n, "run_voice_generation", "entry")
    /\ jobs' = update_job(jobs, tasks[n].job_id,
                          [progress |-> 20, message |-> "Initializing TTS..."], now)
    /\ Goto(n, "loop")
    /\ UNCHANGED <<edit, response, now, requests>>

\* Variant: the loop counts from zero instead of from twenty.
SegmentProgress_from_zero(i, total_segments) == (i * 60) \div total_segments

\* Variant: the loop spreads the segments over the whole scale.
SegmentProgress_percent(i, total_segments) == 20 + ((i * 100) \div total_segments)

\* progress = 20 + int((i / total_segments) * 60)
SegmentProgress(i, total_segments) == 20 + ((i * 60) \div total_segments)

\* segments_dir / f"segment_{i:04d}.wav"
SegmentPath(i) ==
    "segment_"
        \o (IF i < 10 THEN "000" ELSE IF i < 100 THEN "00"
            ELSE IF i < 1000 THEN "0" ELSE "")
        \o ToString(i) \o ".wav"

\* Variant: the file of an entry is named after the id of its segment.
GeneratedSegment_by_id(i, seg) ==
    [id |-> IF "id" \in DOMAIN seg THEN seg.id ELSE i,
     start |-> seg.start, end |-> seg.end,
     audio_path |-> SegmentPath(IF "id" \in DOMAIN seg THEN seg.id ELSE i),
     text |-> Strip(seg.text)]

\* The entry appended to generated_segments for the segment at index i.
GeneratedSegment(i, seg) ==
    [id |-> IF "id" \in DOMAIN seg THEN seg.id ELSE i,
     start |-> seg.start, end |-> seg.end,
     audio_path |-> SegmentPath(i), text |-> Strip(seg.text)]

\* Variant: a failing segment discards what was generated before it.
LoopBody_reset(generated_segments, i, seg, tts_raises) ==
    IF Strip(seg.text) = <<>> THEN generated_segments
    ELSE IF tts_raises THEN <<>>
    ELSE Append(generated_segments, GeneratedSegment(i, seg))

\* The list after the loop body ran for index i; tts_raises is the outcome
\* of tts_service.generate_to_file.
LoopBody(generated_segments, i, seg, tts_raises) ==
    IF Strip(seg.text) = <<>> THEN generated_segments
    ELSE IF tts_raises THEN generated_segments
    ELSE Append(generated_segments, GeneratedSegment(i, seg))

\* logger.warning(f"Failed to generate segment {i}: {e}"): the indices logged.
LoopWarnings(warnings, i, seg, tts_raises) ==
    IF Strip(seg.text) # <<>> /\ tts_raises THEN warnings \cup {i} ELSE warnings

\* Variant: the loop counts the segments synthesised so far.
LoopIndex_generated(task) == Len(task.generated)

\* i of "for i, seg in enumerate(segments)": the position in the input list.
LoopIndex(task) == task.i

\* Variant: the worker takes the segment list from the job record each time
\* it needs it.
WorkerSegments_live(task) == jobs[task.job_id].transcript.segments

\* The parameter "segments" of run_voice_generation: the list object that
\* generate_voice passed to add_task.
WorkerSegments(task) == task.segments

\* One iteration of "for i, seg in enumerate(segments)"; i counts from 0.
run_voice_generation_segment(n, tts_raises) ==
    /\ IsTask(n, "run_voice_generation", "loop")
    /\ tasks[n].i < Len(WorkerSegments(tasks[n]))
    /\ LET i     == LoopIndex(tasks[n])
           total == Len(WorkerSegments(tasks[n]))
           seg   == WorkerSegments(tasks[n])[i + 1]
       IN  /\ jobs' = update_job(jobs, tasks[n].job_id,
                         [progress |-> SegmentProgress(i, total),
                          message |-> "Generating segment " \o ToString(i + 1)
                                      \o "/" \o ToString(total) \o "..."], now)
           /\ tasks' = [tasks EXCEPT
                          ![n].i = i + 1,
                          ![n].generated =
                              LoopBody(tasks[n].generated, i, seg, tts_raises),
                          ![n].warnings =
                              LoopWarnings(tasks[n].warnings, i, seg, tts_raises)]
    /\ UNCHANGED <<edit, response, now, requests>>

run_voice_generation_loop_end(n) ==
    /\ IsTask(n, "run_voice_generation", "loop")
    /\ tasks[n].i = Len(WorkerSegments(tasks[n]))
    /\ jobs' = update_job(jobs, tasks[n].job_id,
                          [progress |-> 85,
                           message |-> "Concatenating audio segments..."], now)
    /\ Goto(n, "assemble")
    /\ UNCHANGED <<edit, response, now, requests>>

\* get_video_info, concatenate_audio_with_timing and the final update_job.
\* probe_raises is the outcome of the probe and duration its result;
\* write_raises is the outcome of writing voiceover.wav; lens are the
\* lengths of the clips that the synthesiser wrote to disk.
run_voice_generation_assemble(n, probe_raises, duration, write_raises) ==
    /\ IsTask(n, "run_voice_generation", "assemble")
    /\ \E lens \in [1..Len(tasks[n].generated) -> ClipLens] :
          IF probe_raises
          THEN Fail(n, "probe error", "Voice generation failed")
          ELSE IF AssemblyRaises(tasks[n].generated, lens, duration)
          THEN Fail(n, "could not broadcast input array",
                    "Voice generation failed")
          ELSE IF write_raises
          THEN Fail(n, "write error", "Voice generation failed")
          ELSE /\ jobs' = update_job(jobs, tasks[n].job_id,
                             [status |-> "voice_generated", progress |-> 100,
                              message |-> "Voice generation complete",
                              voiceover_path |-> "voiceover.wav"], now)
               /\ tasks' = RemoveAt(tasks, n)
    /\ UNCHANGED <<edit, response, now, requests>>

\* --- run_video_merge -----------------------------------------------------
run_video_merge_entry(n) ==
    /\ IsTask(n, "run_video_merge", "entry")
    /\ jobs' = update_job(jobs, tasks[n].job_id,
                          [progress |-> 30,
                           message |-> "Merging audio with video..."], now)
    /\ Goto(n, "replace_audio")
    /\ UNCHANGED <<edit, response, now, requests>>

run_video_merge_replace_audio(n, raises) ==
    /\ IsTask(n, "run_video_merge", "replace_audio")
    /\ IF raises
       THEN Fail(n, "replace_audio error", "Video merge failed")
       ELSE /\ jobs' = update_job(jobs, tasks[n].job_id,
                          [status |-> "completed", progress |-> 100,
                           message |-> "Dubbing complete!",
                           output_path |-> "dubbed.mp4",
                           output_url |-> "/api/download"], now)
            /\ tasks' = RemoveAt(tasks, n)
    /\ UNCHANGED <<edit, response, now, requests>>

(***************************************************************************)
(* The job pipeline.                                                       *)
(***************************************************************************)
TaskIndices == 1..MaxRequests

PipelineNext ==
    \/ Tick
    \/ \E ext \in UploadExts, size \in UploadSizes : upload_video(ext, size)
    \/ \E j \in JobIdSpace, language \in LanguageHints :
          start_transcription(j, language)
    \/ \E j \in JobIdSpace : generate_voice(j)
    \/ \E j \in JobIdSpace : merge_video(j)
    \/ \E j \in JobIdSpace, segments \in EditSegments :
          update_transcript_segments(j, segments)
    \/ update_transcript_full_text
    \/ update_transcript_srt
    \/ update_transcript_update_job
    \/ \E n \in TaskIndices : run_transcription_entry(n)
    \/ \E n \in TaskIndices, raises \in BOOLEAN :
          run_transcription_extract_audio(n, raises)
    \/ \E n \in TaskIndices, raises \in BOOLEAN, out \in AsrOutputs :
          run_transcription_transcribe(n, raises, out)
    \/ \E n \in TaskIndices, raises \in BOOLEAN : run_transcription_srt(n, raises)
    \/ \E n \in TaskIndices : run_voice_generation_entry(n)
    \/ \E n \in TaskIndices, tts_raises \in BOOLEAN :
          run_voice_generation_segment(n, tts_raises)
    \/ \E n \in TaskIndices : run_voice_generation_loop_end(n)
    \/ \E n \in TaskIndices, probe_raises \in BOOLEAN,
          duration \in ProbeDurations, write_raises \in BOOLEAN :
          run_voice_generation_assemble(n, probe_raises, duration, write_raises)
    \/ \E n \in TaskIndices : run_video_merge_entry(n)
    \/ \E n \in TaskIndices, raises \in BOOLEAN :
          run_video_merge_replace_audio(n, raises)

Next == PipelineNext /\ UNCHANGED <<asm, snapshot, synth>>

Spec == Init /\ [][Next]_vars

TypeOK ==
    /\ DOMAIN jobs \subseteq JobIdSpace
    /\ \A j \in DOMAIN jobs : jobs[j].status \in JobStatus
    /\ now \in 0..MaxClock

(***************************************************************************)
(* The job pipeline with the recovery file and restarts of the process.    *)
(* save_jobs_state has no caller in the package; it is run from outside,   *)
(* at any moment, and like a restart it is counted with the requests.      *)
(***************************************************************************)
\* datetime.isoformat() of the clock value t, as text.
isoformat(t) ==
    <<"1", "9", "7", "0", "-", "0", "1", "-", "0", "1", "T",
      "0", "0", ":", "0", "0", ":">> \o Pad(t, 2)

\* {k: v.isoformat() if isinstance(v, datetime) else v for k, v in job.items()}
Serializable(job) ==
    [k \in DOMAIN job |->
        IF k \in {"created_at", "updated_at"} THEN isoformat(job[k]) ELSE job[k]]

\* state_file.write_text(json.dumps(serializable, indent=2))
save_jobs_state ==
    /\ Received
    /\ snapshot' = [exists |-> TRUE,
                    jobs |-> [jid \in DOMAIN jobs |-> Serializable(jobs[jid])]]
    /\ UNCHANGED <<jobs, tasks, edit, response, now, asm, synth>>

\* The process stops and is started again: the module is loaded afresh
\* (jobs = {}), the workers and the handler in flight are gone, lifespan
\* logs two lines; jobs_state.json is not read.
restart ==
    /\ Received
    /\ jobs' = <<>>
    /\ tasks' = <<>>
    /\ edit' = IdleEdit
    /\ response' = NoResponse
    /\ UNCHANGED <<now, asm, snapshot, synth>>

\* The pipeline from the moment the first video has been uploaded: the store
\* holds the record that upload_video made, and MaxRequests further requests
\* follow.
UploadedInit ==
    /\ jobs = [k \in {1} |-> NewJob(1, 0)]
    /\ tasks = <<>>
    /\ edit = IdleEdit
    /\ response = Respond("upload_video", 1, 200)
    /\ now = 0
    /\ requests = 0
    /\ snapshot = NoSnapshot
    /\ asm = NoCall
    /\ synth = NoSynth

SpecUploaded == UploadedInit /\ [][Next]_vars

\* The pipeline together with the read-only handlers.
SpecReads == Init /\ [][Next \/ (ReadsNext /\ UNCHANGED <<asm, snapshot, synth>>)]_vars

RestartNext ==
    \/ Next
    \/ save_jobs_state
    \/ restart

SpecRestart == Init /\ [][RestartNext]_vars

(***************************************************************************)
(* The timeline assembler on its own: one call of                          *)
(* concatenate_audio_with_timing on inputs drawn from bounded sets, run    *)
(* statement by statement.                                                 *)
(***************************************************************************)
AsmRates == {2, 3}

AsmDurations ==
    {[num |-> n, den |-> d] : n \in {-1, 0, 1, 2, 7}, d \in {1, 3}}

AsmStarts == {[num |-> n, den |-> 3] : n \in {0, 1, 3, 4, 9}}

AsmClips == {<<1>>, <<1, 2, 3>>, <<4, 5>>}

AsmSegment ==
    {[file |-> "ok", start |-> t, sr |-> r, audio |-> a] :
        t \in AsmStarts, r \in AsmRates, a \in AsmClips}
    \cup
    {[file |-> f, start |-> [num |-> 0, den |-> 3], sr |-> 2, audio |-> <<1>>] :
        f \in {"missing", "unreadable"}}

MaxAsmSegments == 2

AsmSegmentLists ==
    UNION {[1..n -> AsmSegment] : n \in 0..MaxAsmSegments}

AsmInit ==
    /\ PipelineInit
    /\ synth = NoSynth
    /\ \E segments \in AsmSegmentLists, total_duration \in AsmDurations,
          sample_rate \in AsmRates :
          asm = [pc |-> "call", segments |-> segments,
                 total_duration |-> total_duration,
                 sample_rate |-> sample_rate, k |-> 0, output_audio |-> <<>>]

\* output_audio = np.zeros(total_samples, dtype=np.float32)
asm_allocate ==
    /\ asm.pc = "call"
    /\ LET total_samples == TotalSamples(asm.total_duration, asm.sample_rate)
       IN  IF total_samples < 0
           THEN asm' = [asm EXCEPT !.pc = "raised"]
           ELSE asm' = [asm EXCEPT !.pc = "loop", !.k = 1,
                           !.output_audio = [p \in 1..total_samples |-> 0]]
    /\ UNCHANGED pipeline

\* one iteration of "for seg in segments"
asm_segment ==
    /\ asm.pc = "loop"
    /\ asm.k <= Len(asm.segments)
    /\ LET out == PlaceSegment([raised |-> FALSE, audio |-> asm.output_audio],
                               asm.segments[asm.k], asm.sample_rate)
       IN  IF out.raised
           THEN asm' = [asm EXCEPT !.pc = "raised"]
           ELSE asm' = [asm EXCEPT !.k = @ + 1, !.output_audio = out.audio]
    /\ UNCHANGED pipeline

\* sf.write(str(output_path), output_audio, sample_rate) and the return
asm_write ==
    /\ asm.pc = "loop"
    /\ asm.k > Len(asm.segments)
    /\ asm' = [asm EXCEPT !.pc = "done"]
    /\ UNCHANGED pipeline

AsmNext == asm_allocate \/ asm_segment \/ asm_write

SpecAsm == AsmInit /\ [][AsmNext]_vars

(***************************************************************************)
(* The synthesis driver on its own: one call of                            *)
(* TTSService.generate_segments (services/tts.py) on a segment list drawn  *)
(* from a bounded set, run one loop iteration at a time.                   *)
(***************************************************************************)
MaxSynthSegments == 3

\* Segments as dictionaries: with an id that differs from the position and
\* text to trim, without an id, with blank text, and without text.
SynthSegments ==
    { [id |-> 7, start |-> 0, end |-> 500, text |-> <<"a", " ">>],
      [start |-> 500, end |-> 1000, text |-> <<"b">>],
      [id |-> 0, start |-> 1000, end |-> 1500, text |-> <<" ">>],
      [id |-> 1, start |-> 1500, end |-> 2000] }

RECURSIVE SeqsUpTo(_, _)
SeqsUpTo(S, n) ==
    IF n = 0 THEN {<<>>}
    ELSE LET shorter == SeqsUpTo(S, n - 1)
         IN  shorter \cup {Append(q, x) : q \in shorter, x \in S}

SynthSegmentLists == SeqsUpTo(SynthSegments, MaxSynthSegments)

SynthInit ==
    /\ PipelineInit
    /\ asm = NoCall
    /\ \E segments \in SynthSegmentLists :
          synth = [pc |-> "loop", segments |-> segments, i |-> 0,
                   results |-> <<>>, failed |-> {}]

\* text = seg.get("text", "").strip()
SegmentText(seg) == IF "text" \in DOMAIN seg THEN Strip(seg.text) ELSE <<>>

\* Variant: the entry is always numbered by its position in the input.
SynthEntry_index(i, seg) ==
    [id |-> i, start |-> seg.start, end |-> seg.end,
     audio_path |-> SegmentPath(i), text |-> SegmentText(seg)]

\* The dictionary appended to results: "id": seg.get("id", i), ...
SynthEntry(i, seg) ==
    [id |-> IF "id" \in DOMAIN seg THEN seg.id ELSE i,
     start |-> seg.start, end |-> seg.end,
     audio_path |-> SegmentPath(i), text |-> SegmentText(seg)]

\* One iteration of "for i, seg in enumerate(segments)"; raises is the
\* outcome of self.generate_to_file, whose failure is logged.
generate_segments_segment(raises) ==
    /\ synth.pc = "loop"
    /\ synth.i < Len(synth.segments)
    /\ LET i   == synth.i
           seg == synth.segments[i + 1]
       IN  IF SegmentText(seg) = <<>>
           THEN synth' = [synth EXCEPT !.i = i + 1]
           ELSE IF raises
           THEN synth' = [synth EXCEPT !.i = i + 1, !.failed = @ \cup {i}]
           ELSE synth' = [synth EXCEPT !.i = i + 1,
                                       !.results = Append(@, SynthEntry(i, seg))]
    /\ UNCHANGED <<jobs, tasks, edit, response, now, requests, asm, snapshot>>

\* return results
generate_segments_return ==
    /\ synth.pc = "loop"
    /\ synth.i = Len(synth.segments)
    /\ synth' = [synth EXCEPT !.pc = "done"]
    /\ UNCHANGED <<jobs, tasks, edit, response, now, requests, asm, snapshot>>

SynthNext ==
    \/ \E raises \in BOOLEAN : generate_segments_segment(raises)
    \/ generate_segments_return

SpecSynth == SynthInit /\ [][SynthNext]_vars

(***************************************************************************)
(* Properties of the job pipeline.                                         *)
(***************************************************************************)
InProgress == {"transcribing", "generating_voice", "merging"}

TransitionGraph ==
    { <<"pending", "transcribing">>, <<"transcribed", "transcribing">>,
      <<"transcribing", "transcribed">>, <<"transcribing", "failed">>,
      <<"transcribed", "generating_voice">>,
      <<"voice_generated", "generating_voice">>,
      <<"generating_voice", "voice_generated">>,
      <<"generating_voice", "failed">>,
      <<"voice_generated", "merging">>,
      <<"merging", "completed">>, <<"merging", "failed">> }

\* C1: the status of every job is always one of the nine enumerated values;
\* a job is created in pending and every later change of its status follows
\* an edge of the transition graph.
C1_StatusWalk ==
    [][\A j \in DOMAIN jobs' :
          /\ jobs'[j].status \in JobStatus
          /\ j \notin DOMAIN jobs => jobs'[j].status = "pending"
          /\ (j \in DOMAIN jobs /\ jobs'[j].status # jobs[j].status)
                => <<jobs[j].status, jobs'[j].status>> \in TransitionGraph]_vars

\* A job that is generating voice for the second time, so that the walk
\* pending, transcribing, transcribed, generating_voice, voice_generated,
\* generating_voice has been taken.
C1_Witness ==
    \E j \in DOMAIN jobs :
        /\ jobs[j].status = "generating_voice"
        /\ jobs[j].voiceover_path # "None"

StageStatus(fn) ==
    CASE fn = "run_transcription" -> "transcribing"
      [] fn = "run_voice_generation" -> "generating_voice"
      [] fn = "run_video_merge" -> "merging"

\* C2: a job never has more than one background stage task enqueued or
\* running, and whenever a task exists its job already carries the
\* in-progress status of that task's stage, so a further stage request for
\* the job is rejected.
C2_AtMostOneTask ==
    /\ \A j \in JobIdSpace : Cardinality(TasksOf(j)) <= 1
    /\ \A n \in 1..Len(tasks) :
          /\ tasks[n].job_id \in DOMAIN jobs
          /\ jobs[tasks[n].job_id].status = StageStatus(tasks[n].fn)

\* A generate-voice request was rejected while the voice-generation task of
\* the same job is still there.
C2_Witness ==
    \E n \in 1..Len(tasks) :
        /\ tasks[n].fn = "run_voice_generation"
        /\ response = Respond("generate_voice", tasks[n].job_id, 400)

Rejected(op, j) ==
    /\ response' = Respond(op, j, 400)
    /\ jobs' = jobs
    /\ tasks' = tasks

\* C3: a stage request made from a status outside its valid-from set is
\* answered with the invalid-state error, enqueues no task and leaves the
\* whole job dictionary (status, progress, message, artifacts, updated_at)
\* unchanged.
C3_InvalidStateRejected ==
    [][\A j \in DOMAIN jobs :
          /\ ( /\ \E language \in LanguageHints : start_transcription(j, language)
               /\ jobs[j].status \notin {"pending", "transcribed"} )
                => Rejected("start_transcription", j)
          /\ ( /\ generate_voice(j)
               /\ jobs[j].status \notin {"transcribed", "voice_generated"} )
                => Rejected("generate_voice", j)
          /\ ( /\ merge_video(j)
               /\ jobs[j].status # "voice_generated" )
                => Rejected("merge_video", j)]_vars

\* A generate-voice request on a pending job has been answered with 400.
C3_Witness ==
    \E j \in DOMAIN jobs :
        /\ jobs[j].status = "pending"
        /\ response = Respond("generate_voice", j, 400)

TasksOfIn(T, j) == {n \in 1..Len(T) : T[n].job_id = j}

\* A step of task n in which a collaborator call raised: audio extraction,
\* speech recognition, the duration probe, the timeline assembly or the remux.
CollaboratorRaised(n) ==
    \/ run_transcription_extract_audio(n, TRUE)
    \/ \E out \in AsrOutputs : run_transcription_transcribe(n, TRUE, out)
    \/ \E duration \in ProbeDurations, write_raises \in BOOLEAN :
          run_voice_generation_assemble(n, TRUE, duration, write_raises)
    \/ \E duration \in ProbeDurations :
          run_voice_generation_assemble(n, FALSE, duration, TRUE)
    \/ \E duration \in ProbeDurations :
          /\ run_voice_generation_assemble(n, FALSE, duration, FALSE)
          /\ jobs'[tasks[n].job_id].status # "voice_generated"
    \/ run_video_merge_replace_audio(n, TRUE)

\* C4: when a collaborator call raises inside a stage worker, the worker ends
\* with the job in status failed and a non-null error, the response the
\* requester received is not touched, and no job is ever left in an
\* in-progress status without a worker running for it.
C4_CollaboratorFailure ==
    [][/\ \A n \in 1..Len(tasks) :
             CollaboratorRaised(n) =>
                LET j == tasks[n].job_id
                IN  /\ jobs'[j].status = "failed"
                    /\ jobs'[j].error # "None"
                    /\ response' = response
                    /\ TasksOfIn(tasks', j) = {}
       /\ \A j \in DOMAIN jobs' :
             jobs'[j].status \in InProgress => TasksOfIn(tasks', j) # {}]_vars

\* A job failed by the duration probe, after its requester was told that
\* voice generation had started.
C4_Witness ==
    \E j \in DOMAIN jobs :
        /\ jobs[j].status = "failed"
        /\ jobs[j].error = "probe error"
        /\ response = Respond("generate_voice", j, 200)

\* The indices below i of the segments that the loop keeps: non-empty
\* stripped text and no synthesis failure logged.
RECURSIVE KeptIndices(_, _, _)
KeptIndices(segments, i, warnings) ==
    IF i = 0 THEN <<>>
    ELSE LET rest == KeptIndices(segments, i - 1, warnings)
         IN  IF Strip(segments[i].text) # <<>> /\ (i - 1) \notin warnings
             THEN Append(rest, i - 1)
             ELSE rest

IsKept(generated, segments, kept) ==
    /\ Len(generated) = Len(kept)
    /\ \A m \in 1..Len(kept) :
          LET seg == segments[kept[m] + 1]
          IN  /\ generated[m].id = seg.id
              /\ generated[m].start = seg.start
              /\ generated[m].end = seg.end
              /\ generated[m].text = Strip(seg.text)

\* C5: in a voice-generation stage the result list is at every moment the
\* list of the segments processed so far that have non-empty text and whose
\* synthesis did not raise, in input order; a synthesis failure moves on to
\* the next segment without failing the stage; and whatever segments failed,
\* the stage ends in voice_generated when the probe and the write succeed and
\* no kept segment starts after the end of the video.
C5_PartialSynthesis ==
    [][\A n \in 1..Len(tasks) :
          tasks[n].fn = "run_voice_generation" =>
             LET j == tasks[n].job_id
             IN  /\ IsKept(tasks[n].generated, tasks[n].segments,
                           KeptIndices(tasks[n].segments, tasks[n].i,
                                       tasks[n].warnings))
                 /\ run_voice_generation_segment(n, TRUE) =>
                       /\ tasks'[n].i = tasks[n].i + 1
                       /\ jobs'[j].status = "generating_voice"
                 /\ \A duration \in ProbeDurations :
                       ( /\ run_voice_generation_assemble(n, FALSE, duration, FALSE)
                         /\ \A m \in 1..Len(tasks[n].generated) :
                               tasks[n].generated[m].start <= duration )
                          => jobs'[j].status = "voice_generated"]_vars

\* A run over four segments in which the third failed: the first and the
\* fourth are in the result list and the stage is about to assemble them.
C5_Witness ==
    \E n \in 1..Len(tasks) :
        /\ tasks[n].fn = "run_voice_generation"
        /\ tasks[n].pc = "assemble"
        /\ Len(tasks[n].segments) = 4
        /\ tasks[n].warnings = {2}
        /\ Len(tasks[n].generated) = 2

\* C6: a job whose status is generating_voice, voice_generated, merging or
\* completed has a transcript, and one whose status is merging or completed
\* has a voiceover path; no generate-voice request is accepted for a job
\* without a transcript and no merge-video request for a job without a
\* voiceover path.
C6_ArtifactsPresent ==
    \A j \in DOMAIN jobs :
        /\ jobs[j].status \in {"generating_voice", "voice_generated",
                               "merging", "completed"}
              => HasTranscript(jobs[j])
        /\ jobs[j].status \in {"merging", "completed"}
              => jobs[j].voiceover_path # "None"
        /\ response = Respond("generate_voice", j, 200) => HasTranscript(jobs[j])
        /\ response = Respond("merge_video", j, 200)
              => jobs[j].voiceover_path # "None"

\* A merge has been accepted for a job that has both artifacts.
C6_Witness ==
    \E j \in DOMAIN jobs :
        /\ jobs[j].status = "merging"
        /\ response = Respond("merge_video", j, 200)
        /\ HasTranscript(jobs[j])
        /\ jobs[j].voiceover_path # "None"

\* C7: progress is always an integer in 0..100; while a job stays in one
\* in-progress status its progress never decreases; and a step that puts the
\* job into an in-progress status sets progress to the starting value 10.
C7_Progress ==
    [][\A j \in DOMAIN jobs' :
          /\ jobs'[j].progress \in 0..100
          /\ ( /\ j \in DOMAIN jobs
               /\ jobs[j].status \in InProgress
               /\ jobs'[j].status = jobs[j].status )
                => jobs'[j].progress >= jobs[j].progress
          /\ ( /\ j \in DOMAIN jobs
               /\ jobs'[j].status \in InProgress
               /\ jobs'[j].status # jobs[j].status )
                => jobs'[j].progress = 10]_vars

\* A voice generation over an empty segment list has passed its loop.
C7_Witness ==
    \E n \in 1..Len(tasks) :
        /\ tasks[n].fn = "run_voice_generation"
        /\ tasks[n].segments = <<>>
        /\ tasks[n].pc = "assemble"
        /\ jobs[tasks[n].job_id].progress = 85

\* C8: whenever no transcript edit is in the middle of its writes, the
\* full_text of every transcript is the join of the texts of its segments
\* and its srt is the subtitle rendering of those segments.
C8_TranscriptConsistent ==
    edit.pc = "idle" =>
        \A j \in DOMAIN jobs :
            HasTranscript(jobs[j]) =>
                /\ jobs[j].transcript.full_text
                      = Join(<<" ">>, Texts(jobs[j].transcript.segments))
                /\ jobs[j].transcript.srt
                      = segments_to_srt(jobs[j].transcript.segments)

(***************************************************************************)
(* Properties of the timeline assembler.                                   *)
(***************************************************************************)
AsmAllocated == asm.pc \in {"loop", "done"}

\* C9 as stated: for a non-negative total duration the buffer has
\* round(total_duration * sample_rate) samples, that is, its length is an
\* integer nearest to the product.
C9_RoundedLength ==
    (AsmAllocated /\ asm.total_duration.num >= 0) =>
        LET n   == Len(asm.output_audio)
            num == asm.total_duration.num * asm.sample_rate
            den == asm.total_duration.den
        IN  /\ 2 * (n * den - num) <= den
            /\ 2 * (num - n * den) <= den

\* C9: for a non-negative total duration and a positive sample rate the
\* buffer has exactly the product total_duration * sample_rate truncated to
\* an integer (its floor), from the allocation to the return and whatever
\* the segment list is.
C9_TruncatedLength ==
    (AsmAllocated /\ asm.total_duration.num >= 0) =>
        LET n   == Len(asm.output_audio)
            num == asm.total_duration.num * asm.sample_rate
            den == asm.total_duration.den
        IN  /\ n * den <= num
            /\ num < (n + 1) * den

\* A call has returned whose product of duration and rate is not an integer
\* and whose segment list is not empty.
C9_Witness ==
    /\ asm.pc = "done"
    /\ asm.total_duration.num >= 0
    /\ (asm.total_duration.num * asm.sample_rate) % asm.total_duration.den # 0
    /\ Len(asm.segments) > 0
    /\ Len(asm.output_audio) > 0

\* The destination range of segment k, first and one-past-last index.
DestLo(k) ==
    (asm.segments[k].start.num * asm.sample_rate) \div asm.segments[k].start.den

DestHi(k) == DestLo(k) + Len(asm.segments[k].audio)

\* All clips readable at the output rate, destination ranges pairwise
\* disjoint and inside a buffer of the duration's length.
DisjointInside ==
    /\ asm.pc # "none"
    /\ asm.total_duration.num >= 0
    /\ \A k \in 1..Len(asm.segments) :
          /\ asm.segments[k].file = "ok"
          /\ asm.segments[k].sr = asm.sample_rate
          /\ DestHi(k) * asm.total_duration.den
                <= asm.total_duration.num * asm.sample_rate
          /\ \A h \in 1..Len(asm.segments) :
                h # k => (DestHi(k) <= DestLo(h) \/ DestHi(h) <= DestLo(k))

\* C10: for clips at the output rate whose destination ranges are pairwise
\* disjoint and inside the buffer, the call returns, and the returned buffer
\* holds each clip's samples verbatim in the clip's range and zero at every
\* other index; the buffer is a function of the segment list, the total
\* duration and the sample rate.
C10_VerbatimPlacement ==
    DisjointInside =>
        /\ asm.pc # "raised"
        /\ asm.pc = "done" =>
              \A p \in 0..(Len(asm.output_audio) - 1) :
                 LET covering == {k \in 1..Len(asm.segments) :
                                     DestLo(k) <= p /\ p < DestHi(k)}
                 IN  /\ covering = {} => asm.output_audio[p + 1] = 0
                     /\ \A k \in covering :
                           asm.output_audio[p + 1]
                              = asm.segments[k].audio[p - DestLo(k) + 1]

\* A returned buffer with two disjoint clips, one of which starts between
\* two samples, and silence around them.
C10_Witness ==
    /\ asm.pc = "done"
    /\ DisjointInside
    /\ Len(asm.segments) = 2
    /\ \E k \in 1..2 :
          (asm.segments[k].start.num * asm.sample_rate)
              % asm.segments[k].start.den # 0
    /\ \E p \in 1..Len(asm.output_audio) : asm.output_audio[p] = 0
    /\ \E p \in 1..Len(asm.output_audio) : asm.output_audio[p] = 3

\* The clip of segment k as it is placed: resampled when its rate differs.
PlacedClip(k) ==
    IF asm.segments[k].sr # asm.sample_rate
    THEN Resample(asm.segments[k].audio, asm.segments[k].sr, asm.sample_rate)
    ELSE asm.segments[k].audio

\* The readable segments whose destination range contains index p.
Covering(p) ==
    {k \in 1..Len(asm.segments) :
        /\ asm.segments[k].file = "ok"
        /\ DestLo(k) <= p
        /\ p < DestLo(k) + Len(PlacedClip(k))}

SetMax(S) == CHOOSE x \in S : \A y \in S : y <= x

\* C11: in a returned buffer every index covered by the destination range of
\* one or more segments holds the sample of the covering segment that comes
\* last in the input list, whatever the start times are; so an overlap holds
\* the later segment's samples and an index covered only by the earlier
\* segment keeps the earlier segment's sample.
C11_LastWriteWins ==
    asm.pc = "done" =>
        \A p \in 0..(Len(asm.output_audio) - 1) :
            Covering(p) # {} =>
                LET k == SetMax(Covering(p))
                IN  asm.output_audio[p + 1] = PlacedClip(k)[p - DestLo(k) + 1]

\* A returned buffer in which the second segment starts before the first,
\* the two overlap with different samples, and the first reaches further.
C11_Witness ==
    /\ asm.pc = "done"
    /\ Len(asm.segments) = 2
    /\ DestLo(2) < DestLo(1)
    /\ \E p \in 0..(Len(asm.output_audio) - 1) :
          /\ Covering(p) = {1, 2}
          /\ PlacedClip(1)[p - DestLo(1) + 1] # PlacedClip(2)[p - DestLo(2) + 1]
    /\ \E p \in 0..(Len(asm.output_audio) - 1) :
          /\ Covering(p) = {1}
          /\ asm.output_audio[p + 1] = PlacedClip(1)[p - DestLo(1) + 1]

\* C12: an iteration over a readable segment whose start offset is at or
\* beyond the end of the buffer does not raise, leaves the buffer as it was
\* and moves on to the next segment.
C12_BeyondEndContributesNothing ==
    [][( /\ asm_segment
         /\ asm.segments[asm.k].file = "ok"
         /\ DestLo(asm.k) >= Len(asm.output_audio) )
        => /\ asm'.pc = "loop"
           /\ asm'.k = asm.k + 1
           /\ asm'.output_audio = asm.output_audio]_vars

\* C13: for a total duration that is zero or negative, and any segment
\* list, the call never raises and its buffer is empty.
C13_EmptyForNonPositiveDuration ==
    (asm.pc \notin {"none", "call"} /\ asm.total_duration.num <= 0) =>
        /\ asm.pc # "raised"
        /\ Len(asm.output_audio) = 0

\* C14: an iteration over a segment whose audio file is missing or cannot
\* be read skips the segment: it does not raise, leaves the buffer as it
\* was, and the loop goes on with the next segment.
C14_BadFileSkipped ==
    [][( /\ asm_segment
         /\ asm.segments[asm.k].file \in {"missing", "unreadable"} )
        => /\ asm'.pc = "loop"
           /\ asm'.k = asm.k + 1
           /\ asm'.output_audio = asm.output_audio]_vars

\* The integers nearest to the rational num / den (two of them on a tie).
Nearest(num, den) ==
    {n \in 0..((num \div den) + 1) :
        /\ 2 * (n * den - num) <= den
        /\ 2 * (num - n * den) <= den}

\* An iteration that placed the readable segment at asm.k.
PlacedStep ==
    /\ asm_segment
    /\ asm.segments[asm.k].file = "ok"
    /\ asm'.pc = "loop"

\* C15 as stated: a clip of len samples at rate R1 # R2 is resampled to
\* round(R2/R1 * len) samples and every clip is written from buffer index
\* round(start * R2) on: after the iteration exactly the buffer indices of
\* that range hold samples of the clip, the others are as before.
C15_RoundedPlacement ==
    [][PlacedStep =>
        LET seg == asm.segments[asm.k]
            len == Len(seg.audio)
        IN  \E x \in Nearest(seg.start.num * asm.sample_rate, seg.start.den),
               n \in (IF seg.sr # asm.sample_rate
                      THEN Nearest(len * asm.sample_rate, seg.sr)
                      ELSE {len}) :
               \A p \in 0..(Len(asm.output_audio) - 1) :
                  IF x <= p /\ p < x + n
                  THEN asm'.output_audio[p + 1] # 0
                  ELSE asm'.output_audio[p + 1] = asm.output_audio[p + 1]]_vars

\* C15: a clip of len samples at rate R1 # R2 is resampled to the integer
\* part of len * R2 / R1 samples, sample m of the result being the sample of
\* the clip at the integer part of m * (len - 1) / (new length - 1), and the
\* samples a segment puts into the buffer start at the integer part of
\* start * R2; the rest of the buffer is as before.
C15_TruncatedPlacement ==
    [][PlacedStep =>
        LET seg == asm.segments[asm.k]
            len == Len(seg.audio)
            x   == (seg.start.num * asm.sample_rate) \div seg.start.den
            n   == IF seg.sr # asm.sample_rate
                   THEN (len * asm.sample_rate) \div seg.sr
                   ELSE len
            from(m) == IF seg.sr = asm.sample_rate THEN m
                       ELSE IF n = 1 THEN 0
                       ELSE (m * (len - 1)) \div (n - 1)
        IN  \A p \in 0..(Len(asm.output_audio) - 1) :
               IF x <= p /\ p < x + n
               THEN asm'.output_audio[p + 1] = seg.audio[from(p - x) + 1]
               ELSE asm'.output_audio[p + 1] = asm.output_audio[p + 1]]_vars

\* The first segment has been placed whole; neither its resampled length
\* nor its start offset is a whole number of samples before truncation.
C15_Witness ==
    /\ asm.pc \in {"loop", "done"}
    /\ asm.k > 1
    /\ LET seg == asm.segments[1]
           x   == (seg.start.num * asm.sample_rate) \div seg.start.den
           n   == (Len(seg.audio) * asm.sample_rate) \div seg.sr
       IN  /\ seg.file = "ok"
           /\ seg.sr # asm.sample_rate
           /\ (Len(seg.audio) * asm.sample_rate) % seg.sr # 0
           /\ (seg.start.num * asm.sample_rate) % seg.start.den # 0
           /\ n >= 1
           /\ x + n < Len(asm.output_audio)
           /\ asm.output_audio[x + 1] # 0
           /\ asm.output_audio[x + n + 1] = 0

\* Segment k starts inside a buffer of t samples and its clip runs past
\* the end of it.
Overflows(k, t) ==
    /\ asm.segments[k].file = "ok"
    /\ DestLo(k) < t
    /\ DestLo(k) + Len(PlacedClip(k)) > t

\* C16: an iteration over a segment that starts inside the buffer and whose
\* clip would run past the buffer end does not raise, keeps the buffer
\* length, writes the first (buffer length - start offset) samples of the
\* clip from the start offset to the buffer end and leaves every index
\* before the start offset as it was.
C16_TruncatedAtEnd ==
    [][(asm_segment /\ Overflows(asm.k, Len(asm.output_audio))) =>
        LET x == DestLo(asm.k)
        IN  /\ asm'.pc = "loop"
            /\ Len(asm'.output_audio) = Len(asm.output_audio)
            /\ \A p \in 0..(Len(asm.output_audio) - 1) :
                  IF p >= x
                  THEN asm'.output_audio[p + 1] = PlacedClip(asm.k)[p - x + 1]
                  ELSE asm'.output_audio[p + 1] = asm.output_audio[p + 1]]_vars

\* The first segment ran past the end of the buffer by more than one sample
\* and the last buffer index holds the clip sample that fell on it.
C16_Witness ==
    /\ asm.pc \in {"loop", "done"}
    /\ asm.k > 1
    /\ Overflows(1, Len(asm.output_audio))
    /\ DestLo(1) > 0
    /\ DestLo(1) + Len(PlacedClip(1)) > Len(asm.output_audio) + 1
    /\ \A p \in DestLo(1)..(Len(asm.output_audio) - 1) :
          asm.output_audio[p + 1] = PlacedClip(1)[p - DestLo(1) + 1]

(***************************************************************************)
(* Properties of the subtitle rendering.                                   *)
(***************************************************************************)
TwoDigits(n) == <<Digits[(n \div 10) + 1], Digits[(n % 10) + 1]>>

ThreeDigits(n) == <<Digits[(n \div 100) + 1]>> \o TwoDigits(n % 100)

\* HH:MM:SS,mmm for a time of ms milliseconds (below 100 hours).
Timestamp(ms) ==
    TwoDigits(ms \div 3600000) \o <<":">>
        \o TwoDigits((ms % 3600000) \div 60000) \o <<":">>
        \o TwoDigits((ms % 60000) \div 1000) \o <<",">>
        \o ThreeDigits(ms % 1000)

\* index, newline, start --> end, newline, text, newline
Block(i, seg) ==
    Str(i) \o <<"\n">>
        \o Timestamp(seg.start) \o <<" ", "-", "-", ">", " ">>
        \o Timestamp(seg.end) \o <<"\n">>
        \o seg.text \o <<"\n">>

\* The blocks of segments i.. in order, each followed by an empty line.
RECURSIVE BlocksAllClosed(_, _)
BlocksAllClosed(segments, i) ==
    IF segments = <<>> THEN <<>>
    ELSE Block(i, Head(segments)) \o <<"\n">>
            \o BlocksAllClosed(Tail(segments), i + 1)

\* The blocks of segments i.. in order, with an empty line between two
\* consecutive blocks and none after the last.
RECURSIVE BlocksSeparated(_, _)
BlocksSeparated(segments, i) ==
    IF segments = <<>> THEN <<>>
    ELSE IF Len(segments) = 1 THEN Block(i, Head(segments))
    ELSE Block(i, Head(segments)) \o <<"\n">>
            \o BlocksSeparated(Tail(segments), i + 1)

\* A step that writes a subtitle text renders(segs, srt) it from segs.
SrtWritten(renders(_, _)) ==
    /\ \A n \in 1..Len(tasks) :
          run_transcription_srt(n, FALSE) =>
             renders(tasks[n].result.segments,
                     jobs'[tasks[n].job_id].transcript.srt)
    /\ update_transcript_srt =>
          renders(edit.segments, jobs'[edit.job_id].transcript.srt)

RendersAllClosed(segs, srt) == srt = BlocksAllClosed(segs, 1)

RendersSeparated(segs, srt) == srt = BlocksSeparated(segs, 1)

\* C17 as stated: the subtitle text written for n segments is the
\* concatenation of n blocks index, newline, start --> end, newline, text,
\* newline, newline, with indices 1..n; the last block too ends with two
\* newlines.
C17_EveryBlockClosed == [][SrtWritten(RendersAllClosed)]_vars

\* C17: the subtitle text written for n segments is the n blocks index,
\* newline, start --> end in HH:MM:SS,mmm, newline, text, newline, in list
\* order with indices 1..n and one empty line between consecutive blocks;
\* the last block ends with a single newline, and no segments give the
\* empty text.
C17_BlocksSeparated == [][SrtWritten(RendersSeparated)]_vars

\* A transcript of four segments holds their rendering, which ends with a
\* single newline.
C17_Witness ==
    \E j \in DOMAIN jobs :
        /\ HasTranscript(jobs[j])
        /\ Len(jobs[j].transcript.segments) = 4
        /\ jobs[j].transcript.srt = BlocksSeparated(jobs[j].transcript.segments, 1)
        /\ LET srt == jobs[j].transcript.srt
           IN  /\ srt[Len(srt)] = "\n"
               /\ srt[Len(srt) - 1] # "\n"

(***************************************************************************)
(* Further properties of the job pipeline.                                 *)
(***************************************************************************)
\* C18: a transcribe request on a transcribed job and a generate-voice
\* request on a voice_generated job are accepted and start their stage; the
\* step that ends a successful transcription puts the recogniser's segments,
\* their joined text and their subtitle rendering in place of whatever the
\* transcript held, and neither adds a job record nor changes the job's id.
C18_RerunReplaces ==
    [][/\ \A j \in DOMAIN jobs :
            /\ ( /\ \E language \in LanguageHints : start_transcription(j, language)
                 /\ jobs[j].status = "transcribed" )
                  => /\ response' = Respond("start_transcription", j, 200)
                     /\ jobs'[j].status = "transcribing"
                     /\ Len(tasks') = Len(tasks) + 1
            /\ (generate_voice(j) /\ jobs[j].status = "voice_generated")
                  => /\ response' = Respond("generate_voice", j, 200)
                     /\ jobs'[j].status = "generating_voice"
                     /\ Len(tasks') = Len(tasks) + 1
       /\ \A n \in 1..Len(tasks) :
            run_transcription_srt(n, FALSE) =>
               LET j      == tasks[n].job_id
                   result == tasks[n].result
               IN  /\ DOMAIN jobs' = DOMAIN jobs
                   /\ jobs'[j].job_id = jobs[j].job_id
                   /\ jobs'[j].status = "transcribed"
                   /\ DOMAIN jobs'[j].transcript
                         = {"segments", "full_text", "srt", "language"}
                   /\ jobs'[j].transcript.segments = result.segments
                   /\ jobs'[j].transcript.full_text
                         = Join(<<" ">>, Texts(result.segments))
                   /\ jobs'[j].transcript.srt
                         = BlocksSeparated(result.segments, 1)
                   /\ jobs'[j].transcript.language = result.language]_vars

\* A second transcription, accepted after a manual edit, is about to write
\* its result over the edited transcript.
C18_Witness ==
    \E n \in 1..Len(tasks) :
        LET j == tasks[n].job_id
        IN  /\ tasks[n].fn = "run_transcription"
            /\ tasks[n].pc = "srt"
            /\ response = Respond("start_transcription", j, 200)
            /\ HasTranscript(jobs[j])
            /\ jobs[j].transcript.segments \in EditSegments \ {<<>>}
            /\ jobs[j].transcript.segments # tasks[n].result.segments

\* C19: a failed job stays failed in every step: no worker is running or
\* pending for it, every transcribe, generate-voice and merge-video request
\* on it is rejected and changes nothing, and the steps of a transcript edit
\* leave its status alone.
C19_FailedIsFinal ==
    [][\A j \in DOMAIN jobs :
          jobs[j].status = "failed" =>
             /\ jobs'[j].status = "failed"
             /\ TasksOf(j) = {}
             /\ TasksOfIn(tasks', j) = {}
             /\ (\E language \in LanguageHints : start_transcription(j, language))
                   => Rejected("start_transcription", j)
             /\ generate_voice(j) => Rejected("generate_voice", j)
             /\ merge_video(j) => Rejected("merge_video", j)]_vars

\* A job that failed in voice generation has had its transcript edited and
\* is still failed.
C19_Witness ==
    \E j \in DOMAIN jobs :
        /\ jobs[j].status = "failed"
        /\ jobs[j].error = "probe error"
        /\ response = Respond("update_transcript", j, 200)
        /\ jobs[j].transcript.segments \in EditSegments \ {<<>>}

(***************************************************************************)
(* Properties of the recovery file and restarts.                           *)
(***************************************************************************)
\* C20: after a restart every job that the recovery file records in an
\* in-progress status is in the job store, marked failed with an error.
C20_RecoveredAsFailed ==
    [][restart =>
        \A j \in DOMAIN snapshot.jobs :
            snapshot.jobs[j].status \in InProgress =>
                /\ j \in DOMAIN jobs'
                /\ jobs'[j].status = "failed"
                /\ jobs'[j].error # "None"]_vars

(***************************************************************************)
(* Properties of the job store.                                            *)
(***************************************************************************)
\* A step inside update_transcript that is not yet its closing update_job.
EditUnderWay == edit'.pc \in {"full_text", "srt", "update_job"}

\* C21: every mutation of a job record (an accepted stage request, a write
\* of a worker, a transcript edit when its update_job closes it) leaves
\* updated_at at the time of the mutation; updated_at never decreases and is
\* never earlier than created_at; job_id and created_at never change.
C21_Timestamps ==
    [][/\ \A j \in DOMAIN jobs' :
            /\ jobs'[j].job_id = j
            /\ jobs'[j].updated_at >= jobs'[j].created_at
            /\ j \notin DOMAIN jobs =>
                  /\ jobs'[j].created_at = now
                  /\ jobs'[j].updated_at = now
       /\ \A j \in DOMAIN jobs :
            /\ j \in DOMAIN jobs'
            /\ jobs'[j].job_id = jobs[j].job_id
            /\ jobs'[j].created_at = jobs[j].created_at
            /\ jobs'[j].updated_at >= jobs[j].updated_at
            /\ (jobs'[j] # jobs[j] /\ ~EditUnderWay)
                  => jobs'[j].updated_at = now
       /\ update_transcript_update_job => jobs'[edit.job_id].updated_at = now]_vars

\* A job was updated at a later time than it was created.
C21_Witness ==
    \E j \in DOMAIN jobs :
        /\ jobs[j].updated_at > jobs[j].created_at
        /\ jobs[j].status = "transcribed"
        /\ response = Respond("update_transcript", j, 200)

\* A request on job id j answers not-found and changes neither the job
\* records nor the workers.
NotFound(op, j) ==
    /\ response' = Respond(op, j, 404)
    /\ jobs' = jobs
    /\ tasks' = tasks
    /\ edit' = edit

\* Every request handler addressed to the unknown id j answers not-found.
HandlersReportNotFound(j) ==
    /\ get_job_status(j) => NotFound("get_job_status", j)
    /\ (\E language \in LanguageHints : start_transcription(j, language))
          => NotFound("start_transcription", j)
    /\ generate_voice(j) => NotFound("generate_voice", j)
    /\ merge_video(j) => NotFound("merge_video", j)
    /\ get_transcript(j) => NotFound("get_transcript", j)
    /\ (\E segments \in EditSegments : update_transcript_segments(j, segments))
          => NotFound("update_transcript", j)
    /\ (\E exists \in BOOLEAN : download_video(j, exists))
          => NotFound("download_video", j)
    /\ (\E exists \in BOOLEAN : download_srt(j, exists))
          => NotFound("download_srt", j)

\* The store's update on the unknown id j changes no record.
UpdateChangesNothing(j) ==
    \A status \in JobStatus :
        update_job(jobs, j, [status |-> status], now) = jobs

\* C22 as stated: every operation addressed to an id that is not in the
\* store, the store's update included, reports not-found, creates no record
\* and leaves the records unchanged.
C22_UnknownIdReported ==
    [][\A j \in JobIdSpace \ DOMAIN jobs :
          /\ HandlersReportNotFound(j)
          /\ UpdateChangesNothing(j)
          /\ update_job_raises(jobs, j)]_vars

\* C22: every request addressed to an id that is not in the store answers
\* not-found, creates no record and leaves the records unchanged; the
\* store's update on such an id creates and changes no record either, and
\* reports nothing.
C22_UnknownIdHandled ==
    [][\A j \in JobIdSpace \ DOMAIN jobs :
          /\ HandlersReportNotFound(j)
          /\ UpdateChangesNothing(j)
          /\ ~update_job_raises(jobs, j)]_vars

\* A subtitle download for an id that is not in the store was answered
\* not-found while another job exists.
C22_Witness ==
    /\ DOMAIN jobs # {}
    /\ response.job_id \in JobIdSpace \ DOMAIN jobs
    /\ response = Respond("download_srt", response.job_id, 404)

\* Every record other than that of job a is as it was.
OthersUnchanged(a) ==
    \A b \in DOMAIN jobs : b # a => (b \in DOMAIN jobs' /\ jobs'[b] = jobs[b])

\* A step of the worker that is task n.
WorkerStep(n) ==
    \/ run_transcription_entry(n)
    \/ \E raises \in BOOLEAN : run_transcription_extract_audio(n, raises)
    \/ \E raises \in BOOLEAN, out \in AsrOutputs :
          run_transcription_transcribe(n, raises, out)
    \/ \E raises \in BOOLEAN : run_transcription_srt(n, raises)
    \/ run_voice_generation_entry(n)
    \/ \E tts_raises \in BOOLEAN : run_voice_generation_segment(n, tts_raises)
    \/ run_voice_generation_loop_end(n)
    \/ \E probe_raises \in BOOLEAN, duration \in ProbeDurations,
          write_raises \in BOOLEAN :
          run_voice_generation_assemble(n, probe_raises, duration, write_raises)
    \/ run_video_merge_entry(n)
    \/ \E raises \in BOOLEAN : run_video_merge_replace_audio(n, raises)

\* The pipeline with fair scheduling of the background workers: a task that
\* was enqueued is started, and a worker whose collaborator call returns or
\* raises goes on to its next statement.
SpecFair ==
    /\ Init
    /\ [][Next]_vars
    /\ \A n \in TaskIndices :
          WF_vars(WorkerStep(n) /\ UNCHANGED <<asm, snapshot, synth>>)

\* A request handler step addressed to job a.
RequestStep(a) ==
    \/ \E language \in LanguageHints : start_transcription(a, language)
    \/ generate_voice(a)
    \/ merge_video(a)
    \/ \E segments \in EditSegments : update_transcript_segments(a, segments)
    \/ /\ edit.job_id = a
       /\ \/ update_transcript_full_text
          \/ update_transcript_srt
          \/ update_transcript_update_job

\* C23: a request or a worker step for job a leaves the record of every
\* other job unchanged and no step changes two records; and whether a stage
\* request for job b is accepted depends on the record of b alone, whatever
\* workers of other jobs are running or stuck.
C23_NoInterference ==
    [][/\ \A a \in DOMAIN jobs : RequestStep(a) => OthersUnchanged(a)
       /\ \A n \in 1..Len(tasks) :
             WorkerStep(n) =>
                /\ OthersUnchanged(tasks[n].job_id)
                /\ \A m \in 1..Len(tasks) :
                      tasks[m].job_id # tasks[n].job_id =>
                         \E k \in 1..Len(tasks') : tasks'[k] = tasks[m]
       /\ Cardinality({j \in DOMAIN jobs : jobs'[j] # jobs[j]}) <= 1
       /\ \A b \in DOMAIN jobs :
             /\ ( /\ \E language \in LanguageHints : start_transcription(b, language)
                  /\ CanTranscribe(jobs[b].status) )
                   => response' = Respond("start_transcription", b, 200)
             /\ ( /\ generate_voice(b)
                  /\ CanGenerateVoice(jobs[b].status)
                  /\ HasTranscript(jobs[b]) )
                   => response' = Respond("generate_voice", b, 200)
             /\ ( /\ merge_video(b)
                  /\ CanMerge(jobs[b].status)
                  /\ jobs[b].voiceover_path # "None" )
                   => response' = Respond("merge_video", b, 200)]_vars

\* The worker of one job has not taken a step since it was enqueued, while
\* a transcription requested later for another job has completed.
C23_Witness ==
    \E a, b \in DOMAIN jobs :
        /\ a # b
        /\ Len(tasks) = 1
        /\ tasks[1].job_id = a
        /\ tasks[1].pc = "entry"
        /\ jobs[a].status = "transcribing"
        /\ jobs[b].status = "transcribed"
        /\ response = Respond("start_transcription", b, 200)

(***************************************************************************)
(* Progress of the stages under fair scheduling.                           *)
(***************************************************************************)
StatusIn(j, S) == j \in DOMAIN jobs /\ jobs[j].status \in S

\* C24: with the workers scheduled fairly and every collaborator call
\* returning or raising, a job in status transcribing eventually is
\* transcribed or failed, a job in status generating_voice eventually is
\* voice_generated or failed, and a job in status merging eventually is
\* completed or failed.
C24_StagesEnd ==
    \A j \in JobIdSpace :
        /\ StatusIn(j, {"transcribing"})
              ~> StatusIn(j, {"transcribed", "failed"})
        /\ StatusIn(j, {"generating_voice"})
              ~> StatusIn(j, {"voice_generated", "failed"})
        /\ StatusIn(j, {"merging"})
              ~> StatusIn(j, {"completed", "failed"})

\* A job went through its three stages and no worker is left for it.
C24_Witness ==
    \E j \in DOMAIN jobs :
        /\ jobs[j].status = "completed"
        /\ TasksOf(j) = {}
        /\ response = Respond("merge_video", j, 200)

(***************************************************************************)
(* Properties of the synthesis driver.                                     *)
(***************************************************************************)
\* The text of a segment with leading and trailing blanks removed; a segment
\* without text counts as blank.
Trimmed(seg) == IF "text" \in DOMAIN seg THEN Strip(seg.text) ELSE <<>>

\* The positions (from 0) below i of the segments with non-blank text whose
\* synthesis did not fail, in increasing order.
RECURSIVE Synthesised(_, _, _)
Synthesised(segments, i, failed) ==
    IF i = 0 THEN <<>>
    ELSE LET before == Synthesised(segments, i - 1, failed)
         IN  IF Trimmed(segments[i]) # <<>> /\ (i - 1) \notin failed
             THEN Append(before, i - 1)
             ELSE before

\* C25: the result list of the synthesis driver has one entry for each input
\* segment processed so far whose trimmed text is non-empty and whose
\* synthesis succeeded, none for any other segment, in input order; each
\* entry carries the segment's start, end and trimmed text, and its id, or
\* its position in the input when the segment has no id.
C25_DriverResult ==
    synth.pc \in {"loop", "done"} =>
        LET kept == Synthesised(synth.segments, synth.i, synth.failed)
        IN  /\ synth.pc = "done" => synth.i = Len(synth.segments)
            /\ Len(synth.results) = Len(kept)
            /\ \A m \in 1..Len(kept) :
                  LET seg   == synth.segments[kept[m] + 1]
                      entry == synth.results[m]
                  IN  /\ entry.start = seg.start
                      /\ entry.end = seg.end
                      /\ entry.text = Trimmed(seg)
                      /\ entry.id = IF "id" \in DOMAIN seg THEN seg.id
                                    ELSE kept[m]

\* A finished call on three segments: a blank one, one whose synthesis
\* failed, and one without an id, the only one in the result, numbered 2.
C25_Witness ==
    /\ synth.pc = "done"
    /\ Len(synth.segments) = 3
    /\ synth.failed = {1}
    /\ Trimmed(synth.segments[1]) = <<>>
    /\ "id" \notin DOMAIN synth.segments[3]
    /\ Len(synth.results) = 1
    /\ synth.results[1].id = 2

(***************************************************************************)
(* Further properties of the voice-generation stage.                       *)
(***************************************************************************)
\* C26: the progress written for the segment at position i is
\* 20 + floor(60 * i / total), whatever happened to the segments before it
\* and whatever happens to this one: the write is made for a blank segment
\* and for one whose synthesis fails just as for one that succeeds, and
\* the loop then moves to position i + 1.
C26_ProgressByPosition ==
    [][\A n \in 1..Len(tasks) :
          \A tts_raises \in BOOLEAN :
             run_voice_generation_segment(n, tts_raises) =>
                LET j     == tasks[n].job_id
                    i     == tasks[n].i
                    total == Len(tasks[n].segments)
                IN  /\ jobs'[j].progress = 20 + ((60 * i) \div total)
                    /\ tasks'[n].i = i + 1
                    /\ tasks'[n].segments = tasks[n].segments]_vars

\* The loop is at the fourth of four segments; the first failed, the second
\* was blank, the third succeeded, and the progress last written is that of
\* position 2.
C26_Witness ==
    \E n \in 1..Len(tasks) :
        /\ IsTask(n, "run_voice_generation", "loop")
        /\ Len(tasks[n].segments) = 4
        /\ tasks[n].i = 3
        /\ tasks[n].warnings = {0}
        /\ Len(tasks[n].generated) = 1
        /\ jobs[tasks[n].job_id].progress = 50

(***************************************************************************)
(* Further properties of the store and of the status walk.                 *)
(***************************************************************************)
\* C27: an accepted upload adds exactly one record, under an id that no
\* record had, with status pending, progress 0 and no transcript, error or
\* output_url, and leaves every existing record as it was; an upload
\* rejected for its extension or its size leaves the store as it was.
C27_UploadCreatesOne ==
    [][\A ext \in UploadExts, size \in UploadSizes :
          upload_video(ext, size) =>
             IF ext \in ALLOWED_VIDEO_EXTENSIONS /\ size <= MAX_UPLOAD_SIZE
             THEN /\ DOMAIN jobs \subseteq DOMAIN jobs'
                  /\ Cardinality(DOMAIN jobs' \ DOMAIN jobs) = 1
                  /\ \A k \in DOMAIN jobs : jobs'[k] = jobs[k]
                  /\ \A k \in DOMAIN jobs' \ DOMAIN jobs :
                        /\ jobs'[k].job_id = k
                        /\ jobs'[k].status = "pending"
                        /\ jobs'[k].progress = 0
                        /\ jobs'[k].transcript = NoTranscript
                        /\ jobs'[k].error = "None"
                        /\ jobs'[k].output_url = "None"
                        /\ response' = Respond("upload_video", k, 200)
             ELSE /\ jobs' = jobs
                  /\ response'.status_code = 400]_vars

\* A second upload was accepted while the first job was being transcribed.
C27_Witness ==
    /\ DOMAIN jobs = {1, 2}
    /\ jobs[1].status = "transcribing"
    /\ jobs[1].progress > 10
    /\ jobs[2].status = "pending"
    /\ jobs[2].progress = 0
    /\ response = Respond("upload_video", 2, 200)

\* The voice-generation tasks of job j among the tasks T.
VoiceTasksIn(T, j) ==
    {n \in 1..Len(T) : T[n].job_id = j /\ T[n].fn = "run_voice_generation"}

\* What the loop body leaves in the result list for the segment seg at
\* position i of the worker's list.
AfterSegment(generated, i, seg, tts_raises) ==
    IF Strip(seg.text) = <<>> \/ tts_raises THEN generated
    ELSE Append(generated,
                [id |-> seg.id, start |-> seg.start, end |-> seg.end,
                 audio_path |-> SegmentPath(i), text |-> Strip(seg.text)])

\* C28: the worker of an accepted generate-voice request is given the segment
\* list the job held at acceptance; no step, a transcript edit included,
\* changes the list of a worker in flight; each iteration synthesises the
\* segment at its position in that list; and a step of the worker changes
\* the record of its job alone, stamps it as the store's update does, and
\* leaves the transcript in the record as it was.
C28_WorkerKeepsItsList ==
    [][\A j \in DOMAIN jobs :
          /\ (generate_voice(j) /\ response'.status_code = 200) =>
                /\ VoiceTasksIn(tasks, j) = {}
                /\ \E n \in VoiceTasksIn(tasks', j) :
                      /\ VoiceTasksIn(tasks', j) = {n}
                      /\ tasks'[n].segments = jobs[j].transcript.segments
                      /\ tasks'[n].i = 0
          /\ \A n \in VoiceTasksIn(tasks, j) :
                /\ \A m \in VoiceTasksIn(tasks', j) :
                      tasks'[m].segments = tasks[n].segments
                /\ \A tts_raises \in BOOLEAN :
                      run_voice_generation_segment(n, tts_raises) =>
                         tasks'[n].generated
                            = AfterSegment(tasks[n].generated, tasks[n].i,
                                           tasks[n].segments[tasks[n].i + 1],
                                           tts_raises)
                /\ WorkerStep(n) =>
                      /\ OthersUnchanged(j)
                      /\ jobs'[j].transcript = jobs[j].transcript
                      /\ jobs'[j].job_id = jobs[j].job_id
                      /\ jobs'[j].created_at = jobs[j].created_at
                      /\ jobs'[j].updated_at = now]_vars

\* A transcript edit was accepted while the worker was in its loop: the
\* record holds the edited list, the worker goes on with the list it was
\* given and has synthesised a segment of it.
C28_Witness ==
    \E n \in 1..Len(tasks) :
        LET j == tasks[n].job_id
        IN  /\ IsTask(n, "run_voice_generation", "loop")
            /\ jobs[j].status = "generating_voice"
            /\ response = Respond("update_transcript", j, 200)
            /\ jobs[j].transcript.segments # tasks[n].segments
            /\ tasks[n].i = Len(tasks[n].segments)
            /\ tasks[n].generated # <<>>
            /\ \A m \in 1..Len(tasks[n].generated) :
                  \E k \in 1..Len(tasks[n].segments) :
                     tasks[n].generated[m].id = tasks[n].segments[k].id

\* C29: the error of a job is set exactly when its status is failed.
C29_ErrorIffFailed ==
    \A j \in DOMAIN jobs : (jobs[j].error # "None") <=> (jobs[j].status = "failed")

\* One job failed in its voice generation and has the error recorded; the
\* next job is new and has none.
C29_Witness ==
    /\ DOMAIN jobs = {1, 2}
    /\ jobs[1].status = "failed"
    /\ jobs[1].error = "probe error"
    /\ jobs[1].transcript # NoTranscript
    /\ jobs[2].status = "pending"
    /\ jobs[2].error = "None"

\* The download fields of a record are set.
HasOutput(job) == job.output_url # "None" /\ job.output_path # "None"

NoOutput(job) == job.output_url = "None" /\ job.output_path = "None"

\* C30: a completed job stays completed, with the same download fields and
\* without a worker, whatever step is taken; a transcribe, generate-voice or
\* merge-video request addressed to it is refused; and a record has its
\* output_url and output_path set exactly when its status is completed.
C30_CompletedIsFinal ==
    [][\A j \in DOMAIN jobs :
          /\ IF jobs[j].status = "completed"
             THEN HasOutput(jobs[j]) ELSE NoOutput(jobs[j])
          /\ IF jobs'[j].status = "completed"
             THEN HasOutput(jobs'[j]) ELSE NoOutput(jobs'[j])
          /\ jobs[j].status = "completed" =>
                /\ jobs'[j].status = "completed"
                /\ jobs'[j].output_url = jobs[j].output_url
                /\ jobs'[j].output_path = jobs[j].output_path
                /\ TasksOfIn(tasks', j) = {}
                /\ \A language \in LanguageHints :
                      start_transcription(j, language) =>
                         response' = Respond("start_transcription", j, 400)
                /\ generate_voice(j) =>
                      response' = Respond("generate_voice", j, 400)
                /\ merge_video(j) =>
                      response' = Respond("merge_video", j, 400)]_vars

\* A completed job was asked to generate its voice again and the request
\* was refused.
C30_Witness ==
    \E j \in DOMAIN jobs :
        /\ jobs[j].status = "completed"
        /\ HasOutput(jobs[j])
        /\ TasksOf(j) = {}
        /\ response = Respond("generate_voice", j, 400)

(***************************************************************************)
(* Properties of the fields of a record.                                   *)
(***************************************************************************)
\* C31: a pending job has progress 0; a transcribed, voice_generated or
\* completed job has progress 100; a job that is transcribing, generating
\* its voice or merging has a progress from 10 to 85.
C31_ProgressByStatus ==
    \A j \in DOMAIN jobs :
        /\ jobs[j].status = "pending" => jobs[j].progress = 0
        /\ jobs[j].status \in {"transcribed", "voice_generated", "completed"}
              => jobs[j].progress = 100
        /\ jobs[j].status \in {"transcribing", "generating_voice", "merging"}
              => (10 <= jobs[j].progress /\ jobs[j].progress <= 85)

\* The first job is at the end of its synthesis loop, the second is new.
C31_Witness ==
    /\ DOMAIN jobs = {1, 2}
    /\ jobs[1].status = "generating_voice"
    /\ jobs[1].progress = 85
    /\ jobs[2].status = "pending"
    /\ jobs[2].progress = 0

\* Everything in the record of job j but its transcript and its time of
\* last update is as it was, and so is every other record.
OnlyTranscriptChanged(j) ==
    /\ DOMAIN jobs' = DOMAIN jobs
    /\ \A k \in DOMAIN jobs : k # j => jobs'[k] = jobs[k]
    /\ \A f \in DOMAIN jobs[j] \ {"transcript", "updated_at"} :
          jobs'[j][f] = jobs[j][f]

\* C32: a transcript edit addressed to a job that has a transcript is
\* accepted whatever the status; each of its statements changes nothing but
\* the transcript and updated_at of that job and enqueues no task;
\* addressed to a job without a transcript it is refused and changes
\* nothing.
C32_EditTouchesTranscriptOnly ==
    [][/\ \A j \in DOMAIN jobs, segments \in EditSegments :
             update_transcript_segments(j, segments) =>
                IF jobs[j].transcript # NoTranscript
                THEN /\ edit'.pc = "full_text"
                     /\ jobs'[j].transcript.segments = segments
                     /\ OnlyTranscriptChanged(j)
                     /\ tasks' = tasks
                ELSE /\ response' = Respond("update_transcript", j, 400)
                     /\ jobs' = jobs
                     /\ tasks' = tasks
                     /\ edit' = edit
       /\ (update_transcript_full_text \/ update_transcript_srt) =>
             /\ OnlyTranscriptChanged(edit.job_id)
             /\ jobs'[edit.job_id].updated_at = jobs[edit.job_id].updated_at
             /\ tasks' = tasks
       /\ update_transcript_update_job =>
             /\ OnlyTranscriptChanged(edit.job_id)
             /\ jobs'[edit.job_id].transcript = jobs[edit.job_id].transcript
             /\ jobs'[edit.job_id].updated_at = now
             /\ tasks' = tasks
             /\ response' = Respond("update_transcript", edit.job_id, 200)]_vars

\* A job whose transcript was edited after its merge had been requested: it
\* is completed, with its download fields, and holds the edited list.
C32_Witness ==
    \E j \in DOMAIN jobs :
        /\ jobs[j].status = "completed"
        /\ jobs[j].progress = 100
        /\ jobs[j].output_url # "None"
        /\ jobs[j].transcript.segments \in EditSegments \ {<<>>}
        /\ response = Respond("update_transcript", j, 200)
        /\ tasks = <<>>

\* C33: no job ever has the status uploading; every record holds one of the
\* other eight values of JobStatus.
C33_NeverUploading ==
    \A j \in DOMAIN jobs :
        /\ jobs[j].status # "uploading"
        /\ jobs[j].status \in JobStatus \ {"uploading"}

\* Two uploads were accepted, the first job has since been given its voice:
\* neither record went through uploading on its way.
C33_Witness ==
    /\ DOMAIN jobs = {1, 2}
    /\ jobs[1].status = "voice_generated"
    /\ jobs[2].status = "pending"
    /\ jobs[2].created_at = jobs[2].updated_at
    /\ response = Respond("upload_video", 2, 200)

\* No two entries of the list have the same audio path.
DistinctPaths(entries) ==
    \A a, b \in 1..Len(entries) :
        a # b => entries[a].audio_path # entries[b].audio_path

\* C34: in a voice-generation run, and in a call of the synthesis driver,
\* the entries of the result list have pairwise distinct audio paths, also
\* when segments of the input share an id.
C34_DistinctAudioPaths ==
    /\ \A n \in 1..Len(tasks) :
          tasks[n].fn = "run_voice_generation" => DistinctPaths(tasks[n].generated)
    /\ DistinctPaths(synth.results)

\* A run over an edited list whose two segments share the id 7: both were
\* synthesised, into segment_0000.wav and segment_0001.wav.
C34_Witness ==
    \E n \in 1..Len(tasks) :
        /\ tasks[n].fn = "run_voice_generation"
        /\ Len(tasks[n].generated) = 2
        /\ tasks[n].generated[1].id = tasks[n].generated[2].id
        /\ tasks[n].generated[1].audio_path = "segment_0000.wav"
        /\ tasks[n].generated[2].audio_path = "segment_0001.wav"

====
